---- MODULE Spec2Model ----
(***************************************************************************)
(* Deterministic decision engine of the yoga coach:                        *)
(*   utils/cycle_utils.py   calculate_cycle_phase                          *)
(*   core/safety_rules.py   SafetyRules                                    *)
(*   core/body_engine.py    BodyStateEngine.process                        *)
(*                                                                         *)
(* A date string "YYYY-MM-DD" is the tuple <<y, m, d>>; the empty string   *)
(* and None are the empty tuple <<>> (both are falsy in Python).  A dict   *)
(* is a record whose DOMAIN holds the keys that are present.  Python lists *)
(* that the code only tests for membership (allowed_pose_types,           *)
(* forbidden_pose_types, training_focus) are sets of category tags.        *)
(***************************************************************************)
EXTENDS Integers, Sequences, FiniteSets, TLC

\* ------------------------------------------------------------------ bounds
\* dates handed to calculate_cycle_phase lie this many days around the start
MaxDaysBefore == 30
MaxDaysAfter == 45
\* largest cycle_length handed to calculate_cycle_phase directly
MaxCycleLength == 40
\* "today" of BodyStateEngine.process lies this many days around the start
MaxProcessBefore == 1
MaxProcessAfter == 17

\* longest session handed to process when the duration varies
MaxDuration == 61
\* largest allowed_types list handed to filter_by_types directly
MaxFilterTypes == 2
\* largest minute budget handed to a section selector directly
MaxSectionMinutes == 10
\* how often the deterministic pipeline is run on one input
MaxRuns == 2

\* ------------------------------------------------------- category universe
PoseType ==
  {"restorative", "gentle_stretch", "standing", "balance", "backbend",
   "forward_fold", "twist", "inversion", "arm_balance", "strong_core",
   "hip_opener", "breathing", "seated", "side_bend", "yin", "somatic",
   "mobility"}

CyclePhase == {"menstrual", "follicular", "ovulation", "luteal"}

IntensityLevel == {"low", "moderate", "high"}

\* ------------------------------------------------------------- date parsing
IsLeap(y) == (y % 4 = 0 /\ y % 100 # 0) \/ y % 400 = 0

DaysInMonth(y, m) ==
  IF m = 2 THEN (IF IsLeap(y) THEN 29 ELSE 28)
  ELSE IF m \in {4, 6, 9, 11} THEN 30 ELSE 31

RECURSIVE DaysBeforeMonth(_, _)
DaysBeforeMonth(y, m) ==
  IF m <= 1 THEN 0 ELSE DaysBeforeMonth(y, m - 1) + DaysInMonth(y, m - 1)

\* datetime.strptime(s, "%Y-%m-%d") accepts s
ValidDate(s) ==
  /\ Len(s) = 3
  /\ s[2] \in 1..12
  /\ s[3] \in 1..DaysInMonth(s[1], s[2])

\* proleptic Gregorian ordinal of the parsed date (datetime.toordinal)
ToOrdinal(s) ==
  LET y == s[1] - 1
  IN  y * 365 + (y \div 4) - (y \div 100) + (y \div 400)
        + DaysBeforeMonth(s[1], s[2]) + s[3]

\* remainder truncated toward zero (sign of the dividend), as C computes it
PyMod_truncated(a, b) ==
  LET m == IF b > 0 THEN b ELSE 0 - b
  IN  IF a >= 0 THEN a % m ELSE 0 - ((0 - a) % m)

\* Python's a % b for ints: the result has the sign of the divisor
PyMod(a, b) ==
  IF b > 0 THEN a % b ELSE 0 - ((0 - a) % (0 - b))

\* --------------------------------------------------- calculate_cycle_phase
\* the ovulation window one day short
PhaseOfDay_short(day_in_cycle) ==
  IF day_in_cycle <= 5 THEN "menstrual"
  ELSE IF day_in_cycle <= 13 THEN "follicular"
  ELSE IF day_in_cycle < 16 THEN "ovulation"
  ELSE "luteal"

PhaseOfDay(day_in_cycle) ==
  IF day_in_cycle <= 5 THEN "menstrual"
  ELSE IF day_in_cycle <= 13 THEN "follicular"
  ELSE IF day_in_cycle <= 16 THEN "ovulation"
  ELSE "luteal"

\* phase boundaries scaled from the 28-day reference to cycle_length
calculate_cycle_phase_scaled(last_period_date, cycle_length, current) ==
  IF ~ValidDate(last_period_date) \/ ~ValidDate(current)
  THEN [raised |-> "ValueError", phase |-> "none", day |-> 0]
  ELSE IF cycle_length = 0
  THEN [raised |-> "ZeroDivisionError", phase |-> "none", day |-> 0]
  ELSE LET days_since_period == ToOrdinal(current) - ToOrdinal(last_period_date)
           day_in_cycle == PyMod(days_since_period, cycle_length)
           m == IF cycle_length > 0 THEN cycle_length ELSE 0 - cycle_length
       IN  [raised |-> "no",
            phase |-> PhaseOfDay((day_in_cycle * 28) \div m),
            day |-> day_in_cycle]

\* the result of calculate_cycle_phase(last_period_date, cycle_length,
\* current): the returned tuple, or the exception raised.  (current -
\* last_date).days is the floor of the difference in days, so the time of
\* day carried by datetime.now() does not change it.
calculate_cycle_phase(last_period_date, cycle_length, current) ==
  IF ~ValidDate(last_period_date) \/ ~ValidDate(current)
  THEN [raised |-> "ValueError", phase |-> "none", day |-> 0]
  ELSE IF cycle_length = 0
  THEN [raised |-> "ZeroDivisionError", phase |-> "none", day |-> 0]
  ELSE LET days_since_period == ToOrdinal(current) - ToOrdinal(last_period_date)
           day_in_cycle == PyMod(days_since_period, cycle_length)
       IN  [raised |-> "no", phase |-> PhaseOfDay(day_in_cycle),
            day |-> day_in_cycle]

\* ------------------------------------------------------------ SafetyRules
\* "Base rules by cycle phase", with the phase's conditional extension
BasePoseTypes(phase, energy) ==
  IF phase = "menstrual" THEN
    {"restorative", "gentle_stretch", "breathing", "forward_fold", "seated",
     "yin", "somatic", "mobility"}
      \cup (IF energy <= 2 THEN {"hip_opener"} ELSE {})
  ELSE IF phase = "follicular" THEN
    {"standing", "balance", "gentle_stretch", "breathing", "hip_opener",
     "forward_fold", "twist", "seated", "side_bend", "yin", "somatic",
     "mobility"}
      \cup (IF energy >= 3 THEN {"backbend", "arm_balance"} ELSE {})
  ELSE IF phase = "ovulation" THEN
    {"standing", "balance", "backbend", "forward_fold", "twist",
     "arm_balance", "strong_core", "hip_opener", "breathing",
     "gentle_stretch", "seated", "side_bend", "yin", "somatic", "mobility"}
      \cup (IF energy >= 4 THEN {"inversion"} ELSE {})
  ELSE IF phase = "luteal" THEN
    {"gentle_stretch", "breathing", "forward_fold", "hip_opener", "twist",
     "restorative", "seated", "yin", "somatic", "mobility"}
      \cup (IF energy >= 3 THEN {"standing", "balance", "side_bend"} ELSE {})
  ELSE {}

VeryGentle ==
  {"restorative", "gentle_stretch", "breathing", "yin", "somatic", "mobility"}

\* high pain replaces the set by the very-gentle list instead of filtering it
PainPass_replace(allowed, pain) ==
  IF pain >= 4 THEN VeryGentle
  ELSE IF pain >= 3 THEN
    {pt \in allowed :
       pt \notin {"inversion", "arm_balance", "strong_core", "backbend"}}
  ELSE allowed

\* the high-pain threshold off by one
PainPass_strict(allowed, pain) ==
  IF pain > 4 THEN {pt \in allowed : pt \in VeryGentle}
  ELSE IF pain >= 3 THEN
    {pt \in allowed :
       pt \notin {"inversion", "arm_balance", "strong_core", "backbend"}}
  ELSE allowed

\* moderate pain forgets to remove backbend
PainPass_backbend(allowed, pain) ==
  IF pain >= 4 THEN {pt \in allowed : pt \in VeryGentle}
  ELSE IF pain >= 3 THEN
    {pt \in allowed :
       pt \notin {"inversion", "arm_balance", "strong_core"}}
  ELSE allowed

\* the two pain branches exchanged
PainPass_swapped(allowed, pain) ==
  IF pain >= 4 THEN
    {pt \in allowed :
       pt \notin {"inversion", "arm_balance", "strong_core", "backbend"}}
  ELSE IF pain >= 3 THEN {pt \in allowed : pt \in VeryGentle}
  ELSE allowed

\* "Pain-based restrictions"
PainPass(allowed, pain) ==
  IF pain >= 4 THEN {pt \in allowed : pt \in VeryGentle}
  ELSE IF pain >= 3 THEN
    {pt \in allowed :
       pt \notin {"inversion", "arm_balance", "strong_core", "backbend"}}
  ELSE allowed

\* very low energy filters the accumulated set instead of replacing it
EnergyPass_filter(allowed, energy) ==
  IF energy <= 1 THEN {pt \in allowed : pt \in {"restorative", "breathing"}}
  ELSE IF energy <= 2 THEN
    {pt \in allowed : pt \notin {"inversion", "arm_balance", "strong_core"}}
  ELSE allowed

\* very low energy leaves restorative alone
EnergyPass_restonly(allowed, energy) ==
  IF energy <= 1 THEN {"restorative"}
  ELSE IF energy <= 2 THEN
    {pt \in allowed : pt \notin {"inversion", "arm_balance", "strong_core"}}
  ELSE allowed

\* low energy (2) removes nothing
EnergyPass_noremoval(allowed, energy) ==
  IF energy <= 1 THEN {"restorative", "breathing"}
  ELSE allowed

\* "Energy-based restrictions"
EnergyPass(allowed, energy) ==
  IF energy <= 1 THEN {"restorative", "breathing"}
  ELSE IF energy <= 2 THEN
    {pt \in allowed : pt \notin {"inversion", "arm_balance", "strong_core"}}
  ELSE allowed

get_allowed_pose_types(state) ==
  EnergyPass(PainPass(BasePoseTypes(state.cycle_phase, state.energy_level),
                      state.pain_level),
             state.energy_level)

\* forbidden computed from the phase's base set, before the override passes
get_forbidden_pose_types_base(state) ==
  {pt \in PoseType :
     pt \notin BasePoseTypes(state.cycle_phase, state.energy_level)}

get_forbidden_pose_types(state) ==
  {pt \in PoseType : pt \notin get_allowed_pose_types(state)}

\* only high pain (>= 4) forces low intensity
get_intensity_level_pain4(state) ==
  LET phase == state.cycle_phase
      energy == state.energy_level
      pain == state.pain_level
  IN  IF pain >= 4 THEN "low"
      ELSE IF energy <= 1 THEN "low"
      ELSE IF energy <= 2 THEN "low"
      ELSE IF phase = "menstrual" THEN "low"
      ELSE IF phase = "ovulation" /\ energy >= 4 THEN "high"
      ELSE IF phase = "follicular" /\ energy >= 3 THEN "moderate"
      ELSE IF phase = "luteal"
        THEN (IF energy <= 2 THEN "low" ELSE "moderate")
      ELSE "moderate"

get_intensity_level(state) ==
  LET phase == state.cycle_phase
      energy == state.energy_level
      pain == state.pain_level
  IN  IF pain >= 4 THEN "low"
      ELSE IF pain >= 3 THEN "low"
      ELSE IF energy <= 1 THEN "low"
      ELSE IF energy <= 2 THEN "low"
      ELSE IF phase = "menstrual" THEN "low"
      ELSE IF phase = "ovulation" /\ energy >= 4 THEN "high"
      ELSE IF phase = "follicular" /\ energy >= 3 THEN "moderate"
      ELSE IF phase = "luteal"
        THEN (IF energy <= 2 THEN "low" ELSE "moderate")
      ELSE "moderate"

\* ------------------------------------------------- BodyStateEngine.process
\* dict.get(key, default)
Get(d, k, default) == IF k \in DOMAIN d THEN d[k] ELSE default

valid_focus ==
  {"seated", "forward_fold", "backbend", "twist", "side_bend", "balance",
   "inversion"}

NoState ==
  [cycle_phase |-> "none", day_in_cycle |-> 0, energy_level |-> 0,
   pain_level |-> 0, duration_minutes |-> 0, intensity |-> "none",
   allowed_pose_types |-> {}, forbidden_pose_types |-> {},
   last_period_date |-> <<>>, cycle_length |-> 0, training_focus |-> {}]

\* every category of the universe accepted as a training focus
ResolveFocus_universe(raw_focus) == {t \in raw_focus : t \in PoseType}

\* "Resolve training_focus": the raw focus restricted to valid_focus
ResolveFocus(raw_focus) == {t \in raw_focus : t \in valid_focus}

\* the focus applied even when nothing allowed is in it
FocusNarrow_always(allowed, training_focus) ==
  IF training_focus # {}
  THEN {t \in allowed : t \in training_focus}
  ELSE allowed

\* "If user chose training focus: keep only allowed types that are in focus"
FocusNarrow(allowed, training_focus) ==
  LET focused == {t \in allowed : t \in training_focus}
  IN  IF training_focus # {} /\ focused # {} THEN focused ELSE allowed

\* process without its "last_period_date is required" check
process_unchecked(input, now) ==
  LET last_period_date == Get(input, "last_period_date", <<>>)
      cycle_length == Get(input, "cycle_length", 28)
      energy == Get(input, "energy", 3)
      pain == Get(input, "pain", 1)
      duration == Get(input, "duration", 20)
      cp == calculate_cycle_phase(last_period_date, cycle_length, now)
      training_focus == ResolveFocus(Get(input, "training_focus", {}))
      state0 ==
        [cycle_phase |-> cp.phase, day_in_cycle |-> cp.day,
         energy_level |-> energy, pain_level |-> pain,
         duration_minutes |-> duration, intensity |-> "moderate",
         allowed_pose_types |-> {}, forbidden_pose_types |-> {},
         last_period_date |-> last_period_date,
         cycle_length |-> cycle_length, training_focus |-> training_focus]
      state1 == [state0 EXCEPT !.allowed_pose_types = get_allowed_pose_types(state0)]
      state2 == [state1 EXCEPT !.forbidden_pose_types = get_forbidden_pose_types(state1)]
      state3 == [state2 EXCEPT !.intensity = get_intensity_level(state2)]
  IN  IF cp.raised # "no"
      THEN [raised |-> cp.raised, state |-> NoState]
      ELSE [raised |-> "no",
            state |-> [state3 EXCEPT !.allowed_pose_types =
                         FocusNarrow(state3.allowed_pose_types, training_focus)]]

\* the BodyState that process(user_input) returns when the clock reads
\* `now`, or the exception it raises: its own ValueError when the date is
\* missing, or the one calculate_cycle_phase raises
process(input, now) ==
  LET last_period_date == Get(input, "last_period_date", <<>>)
      cycle_length == Get(input, "cycle_length", 28)
      energy == Get(input, "energy", 3)
      pain == Get(input, "pain", 1)
      duration == Get(input, "duration", 20)
      cp == calculate_cycle_phase(last_period_date, cycle_length, now)
      training_focus == ResolveFocus(Get(input, "training_focus", {}))
      state0 ==
        [cycle_phase |-> cp.phase, day_in_cycle |-> cp.day,
         energy_level |-> energy, pain_level |-> pain,
         duration_minutes |-> duration, intensity |-> "moderate",
         allowed_pose_types |-> {}, forbidden_pose_types |-> {},
         last_period_date |-> last_period_date,
         cycle_length |-> cycle_length, training_focus |-> training_focus]
      state1 == [state0 EXCEPT !.allowed_pose_types = get_allowed_pose_types(state0)]
      state2 == [state1 EXCEPT !.forbidden_pose_types = get_forbidden_pose_types(state1)]
      state3 == [state2 EXCEPT !.intensity = get_intensity_level(state2)]
  IN  IF Len(last_period_date) = 0
      THEN [raised |-> "ValueError: last_period_date is required",
            state |-> NoState]
      ELSE IF cp.raised # "no"
      THEN [raised |-> cp.raised, state |-> NoState]
      ELSE [raised |-> "no",
            state |-> [state3 EXCEPT !.allowed_pose_types =
                         FocusNarrow(state3.allowed_pose_types, training_focus)]]

\* ---------------------------------------------------------------- PosePool
\* PosePool._initialize_poses: name, types, difficulty and
\* duration_suggestion of every entry, in catalogue order (the sanskrit
\* name is read by nothing in the engine)
PosePoolPoses ==
  <<
    [name |-> "child_pose", types |-> {"restorative", "forward_fold"},
     difficulty |-> "beginner", duration_suggestion |-> "1-3 min"],
    [name |-> "legs_up_wall", types |-> {"restorative", "inversion"},
     difficulty |-> "beginner", duration_suggestion |-> "5-10 min"],
    [name |-> "corpse_pose", types |-> {"restorative"},
     difficulty |-> "beginner", duration_suggestion |-> "5-15 min"],
    [name |-> "supported_bridge", types |-> {"restorative", "backbend"},
     difficulty |-> "beginner", duration_suggestion |-> "1-2 min"],
    [name |-> "reclined_bound_angle", types |-> {"restorative", "hip_opener"},
     difficulty |-> "beginner", duration_suggestion |-> "3-5 min"],
    [name |-> "supported_fish", types |-> {"restorative", "backbend"},
     difficulty |-> "beginner", duration_suggestion |-> "2-4 min"],
    [name |-> "happy_baby", types |-> {"restorative", "hip_opener"},
     difficulty |-> "beginner", duration_suggestion |-> "1-2 min"],
    [name |-> "reclined_hero", types |-> {"restorative", "hip_opener"},
     difficulty |-> "intermediate", duration_suggestion |-> "1-3 min"],
    [name |-> "legs_on_chair", types |-> {"restorative"},
     difficulty |-> "beginner", duration_suggestion |-> "5-10 min"],
    [name |-> "sphinx_pose", types |-> {"restorative", "backbend"},
     difficulty |-> "beginner", duration_suggestion |-> "1-2 min"],
    [name |-> "cat_cow", types |-> {"gentle_stretch"},
     difficulty |-> "beginner", duration_suggestion |-> "6-10 reps"],
    [name |-> "supine_twist", types |-> {"gentle_stretch", "twist"},
     difficulty |-> "beginner", duration_suggestion |-> "1-2 min each side"],
    [name |-> "knee_to_chest", types |-> {"gentle_stretch", "hip_opener"},
     difficulty |-> "beginner", duration_suggestion |-> "30 sec - 1 min"],
    [name |-> "thread_the_needle", types |-> {"gentle_stretch", "twist"},
     difficulty |-> "beginner", duration_suggestion |-> "1 min each side"],
    [name |-> "wind_releasing", types |-> {"gentle_stretch"},
     difficulty |-> "beginner", duration_suggestion |-> "30 sec - 1 min"],
    [name |-> "lying_quad_stretch", types |-> {"gentle_stretch"},
     difficulty |-> "beginner", duration_suggestion |-> "1 min each side"],
    [name |-> "seated_neck_stretch", types |-> {"gentle_stretch", "seated"},
     difficulty |-> "beginner", duration_suggestion |-> "30 sec each side"],
    [name |-> "pelvic_tilts", types |-> {"gentle_stretch"},
     difficulty |-> "beginner", duration_suggestion |-> "8-10 reps"],
    [name |-> "ankle_circles", types |-> {"gentle_stretch"},
     difficulty |-> "beginner", duration_suggestion |-> "5 each direction"],
    [name |-> "wrist_stretches", types |-> {"gentle_stretch"},
     difficulty |-> "beginner", duration_suggestion |-> "30 sec each"],
    [name |-> "mountain_pose", types |-> {"standing"},
     difficulty |-> "beginner", duration_suggestion |-> "30 sec - 1 min"],
    [name |-> "warrior_i", types |-> {"standing"},
     difficulty |-> "intermediate", duration_suggestion |-> "30 sec - 1 min each side"],
    [name |-> "warrior_ii", types |-> {"standing"},
     difficulty |-> "intermediate", duration_suggestion |-> "30 sec - 1 min each side"],
    [name |-> "warrior_iii", types |-> {"standing", "balance"},
     difficulty |-> "intermediate", duration_suggestion |-> "30 sec each side"],
    [name |-> "tree_pose", types |-> {"standing", "balance"},
     difficulty |-> "intermediate", duration_suggestion |-> "30 sec - 1 min each side"],
    [name |-> "standing_forward_fold", types |-> {"forward_fold", "standing"},
     difficulty |-> "beginner", duration_suggestion |-> "30 sec - 1 min"],
    [name |-> "half_lift", types |-> {"standing", "forward_fold"},
     difficulty |-> "beginner", duration_suggestion |-> "30 sec"],
    [name |-> "triangle_pose", types |-> {"standing", "side_bend"},
     difficulty |-> "intermediate", duration_suggestion |-> "30 sec - 1 min each side"],
    [name |-> "extended_side_angle", types |-> {"standing", "side_bend"},
     difficulty |-> "intermediate", duration_suggestion |-> "30 sec - 1 min each side"],
    [name |-> "pyramid_pose", types |-> {"standing", "forward_fold"},
     difficulty |-> "intermediate", duration_suggestion |-> "1 min each side"],
    [name |-> "high_lunge", types |-> {"standing"},
     difficulty |-> "intermediate", duration_suggestion |-> "30 sec - 1 min each side"],
    [name |-> "low_lunge", types |-> {"standing", "hip_opener"},
     difficulty |-> "beginner", duration_suggestion |-> "1 min each side"],
    [name |-> "chair_pose", types |-> {"standing", "strong_core"},
     difficulty |-> "intermediate", duration_suggestion |-> "30 sec - 1 min"],
    [name |-> "gate_pose", types |-> {"standing", "gentle_stretch", "side_bend"},
     difficulty |-> "intermediate", duration_suggestion |-> "1 min each side"],
    [name |-> "standing_wide_legged", types |-> {"standing", "forward_fold"},
     difficulty |-> "beginner", duration_suggestion |-> "1 min"],
    [name |-> "eagle_pose", types |-> {"standing", "balance"},
     difficulty |-> "intermediate", duration_suggestion |-> "30 sec each side"],
    [name |-> "dancer_pose", types |-> {"standing", "balance", "backbend"},
     difficulty |-> "intermediate", duration_suggestion |-> "30 sec each side"],
    [name |-> "half_moon", types |-> {"standing", "balance"},
     difficulty |-> "intermediate", duration_suggestion |-> "30 sec - 1 min each side"],
    [name |-> "revolved_triangle", types |-> {"standing", "twist"},
     difficulty |-> "intermediate", duration_suggestion |-> "1 min each side"],
    [name |-> "standing_leg_raise", types |-> {"standing", "balance"},
     difficulty |-> "intermediate", duration_suggestion |-> "30 sec each side"],
    [name |-> "toe_stand", types |-> {"balance"},
     difficulty |-> "advanced", duration_suggestion |-> "30 sec each side"],
    [name |-> "seated_forward_fold", types |-> {"forward_fold", "seated"},
     difficulty |-> "beginner", duration_suggestion |-> "1-3 min"],
    [name |-> "head_to_knee", types |-> {"forward_fold", "hip_opener", "seated"},
     difficulty |-> "beginner", duration_suggestion |-> "1-2 min each side"],
    [name |-> "wide_angled_seated_fold", types |-> {"forward_fold", "hip_opener", "seated"},
     difficulty |-> "intermediate", duration_suggestion |-> "1-2 min"],
    [name |-> "standing_split", types |-> {"forward_fold", "standing", "balance"},
     difficulty |-> "intermediate", duration_suggestion |-> "30 sec each side"],
    [name |-> "revolved_head_to_knee", types |-> {"forward_fold", "twist", "seated", "side_bend"},
     difficulty |-> "intermediate", duration_suggestion |-> "1 min each side"],
    [name |-> "seated_twist", types |-> {"twist", "seated"},
     difficulty |-> "intermediate", duration_suggestion |-> "1 min each side"],
    [name |-> "revolved_chair", types |-> {"twist", "standing"},
     difficulty |-> "intermediate", duration_suggestion |-> "30 sec each side"],
    [name |-> "revolved_lunge", types |-> {"twist", "standing"},
     difficulty |-> "intermediate", duration_suggestion |-> "1 min each side"],
    [name |-> "revolved_wide_leg", types |-> {"twist", "hip_opener"},
     difficulty |-> "intermediate", duration_suggestion |-> "1 min each side"],
    [name |-> "lizard_twist", types |-> {"twist", "hip_opener"},
     difficulty |-> "intermediate", duration_suggestion |-> "1 min each side"],
    [name |-> "pigeon_pose", types |-> {"hip_opener"},
     difficulty |-> "intermediate", duration_suggestion |-> "1-3 min each side"],
    [name |-> "butterfly_pose", types |-> {"hip_opener", "gentle_stretch", "seated"},
     difficulty |-> "beginner", duration_suggestion |-> "1-3 min"],
    [name |-> "fire_log_pose", types |-> {"hip_opener", "seated"},
     difficulty |-> "intermediate", duration_suggestion |-> "1-2 min each side"],
    [name |-> "cow_face_pose", types |-> {"hip_opener", "seated"},
     difficulty |-> "intermediate", duration_suggestion |-> "1-2 min each side"],
    [name |-> "double_pigeon", types |-> {"hip_opener"},
     difficulty |-> "intermediate", duration_suggestion |-> "1-2 min each side"],
    [name |-> "lizard_pose", types |-> {"hip_opener", "standing"},
     difficulty |-> "intermediate", duration_suggestion |-> "1-2 min each side"],
    [name |-> "frog_pose", types |-> {"hip_opener"},
     difficulty |-> "intermediate", duration_suggestion |-> "1-2 min"],
    [name |-> "reclined_pigeon", types |-> {"hip_opener", "restorative"},
     difficulty |-> "beginner", duration_suggestion |-> "1-2 min each side"],
    [name |-> "squat_pose", types |-> {"hip_opener", "standing"},
     difficulty |-> "intermediate", duration_suggestion |-> "1 min"],
    [name |-> "lotus_pose", types |-> {"seated", "breathing"},
     difficulty |-> "intermediate", duration_suggestion |-> "1-5 min"],
    [name |-> "hero_pose", types |-> {"seated", "gentle_stretch"},
     difficulty |-> "beginner", duration_suggestion |-> "1-3 min"],
    [name |-> "easy_seat", types |-> {"seated", "breathing"},
     difficulty |-> "beginner", duration_suggestion |-> "1-5 min"],
    [name |-> "breath_awareness", types |-> {"breathing", "seated"},
     difficulty |-> "beginner", duration_suggestion |-> "3-5 min"],
    [name |-> "diaphragmatic_breathing", types |-> {"breathing", "seated"},
     difficulty |-> "beginner", duration_suggestion |-> "3-5 min"],
    [name |-> "alternate_nostril", types |-> {"breathing", "seated"},
     difficulty |-> "beginner", duration_suggestion |-> "3-5 min"],
    [name |-> "victorious_breath", types |-> {"breathing"},
     difficulty |-> "beginner", duration_suggestion |-> "2-3 min"],
    [name |-> "extended_exhale", types |-> {"breathing"},
     difficulty |-> "beginner", duration_suggestion |-> "3-5 min"],
    [name |-> "cobra_pose", types |-> {"backbend"},
     difficulty |-> "beginner", duration_suggestion |-> "30 sec - 1 min"],
    [name |-> "bridge_pose", types |-> {"backbend"},
     difficulty |-> "beginner", duration_suggestion |-> "30 sec - 1 min"],
    [name |-> "upward_dog", types |-> {"backbend"},
     difficulty |-> "intermediate", duration_suggestion |-> "30 sec"],
    [name |-> "camel_pose", types |-> {"backbend"},
     difficulty |-> "intermediate", duration_suggestion |-> "30 sec - 1 min"],
    [name |-> "fish_pose", types |-> {"backbend"},
     difficulty |-> "intermediate", duration_suggestion |-> "30 sec - 1 min"],
    [name |-> "wheel_pose", types |-> {"backbend"},
     difficulty |-> "advanced", duration_suggestion |-> "30 sec - 1 min"],
    [name |-> "locust_pose", types |-> {"backbend"},
     difficulty |-> "intermediate", duration_suggestion |-> "30 sec"],
    [name |-> "bow_pose", types |-> {"backbend"},
     difficulty |-> "intermediate", duration_suggestion |-> "30 sec"],
    [name |-> "sphinx_pose_backbend", types |-> {"backbend", "gentle_stretch"},
     difficulty |-> "beginner", duration_suggestion |-> "1 min"],
    [name |-> "boat_pose", types |-> {"strong_core"},
     difficulty |-> "intermediate", duration_suggestion |-> "30 sec - 1 min"],
    [name |-> "plank_pose", types |-> {"strong_core"},
     difficulty |-> "beginner", duration_suggestion |-> "30 sec - 1 min"],
    [name |-> "side_plank", types |-> {"strong_core", "balance"},
     difficulty |-> "intermediate", duration_suggestion |-> "30 sec each side"],
    [name |-> "dolphin_plank", types |-> {"strong_core"},
     difficulty |-> "intermediate", duration_suggestion |-> "30 sec"],
    [name |-> "hollow_body", types |-> {"strong_core"},
     difficulty |-> "intermediate", duration_suggestion |-> "30 sec"],
    [name |-> "dead_bug", types |-> {"strong_core"},
     difficulty |-> "beginner", duration_suggestion |-> "8-10 reps each side"],
    [name |-> "bird_dog", types |-> {"strong_core", "balance"},
     difficulty |-> "beginner", duration_suggestion |-> "8 reps each side"],
    [name |-> "forearm_plank", types |-> {"strong_core"},
     difficulty |-> "beginner", duration_suggestion |-> "30 sec - 1 min"],
    [name |-> "downward_dog", types |-> {"inversion", "standing"},
     difficulty |-> "beginner", duration_suggestion |-> "30 sec - 1 min"],
    [name |-> "dolphin_pose", types |-> {"inversion"},
     difficulty |-> "intermediate", duration_suggestion |-> "1 min"],
    [name |-> "headstand", types |-> {"inversion", "arm_balance"},
     difficulty |-> "advanced", duration_suggestion |-> "30 sec - 2 min"],
    [name |-> "shoulderstand", types |-> {"inversion"},
     difficulty |-> "intermediate", duration_suggestion |-> "1-3 min"],
    [name |-> "plow_pose", types |-> {"inversion"},
     difficulty |-> "intermediate", duration_suggestion |-> "1-2 min"],
    [name |-> "tripod_headstand", types |-> {"inversion", "arm_balance"},
     difficulty |-> "advanced", duration_suggestion |-> "30 sec - 1 min"],
    [name |-> "forearm_stand", types |-> {"inversion", "arm_balance"},
     difficulty |-> "advanced", duration_suggestion |-> "30 sec"],
    [name |-> "handstand_prep", types |-> {"inversion", "arm_balance"},
     difficulty |-> "advanced", duration_suggestion |-> "30 sec"],
    [name |-> "crow_pose", types |-> {"arm_balance", "balance"},
     difficulty |-> "intermediate", duration_suggestion |-> "30 sec"],
    [name |-> "side_crow", types |-> {"arm_balance", "twist"},
     difficulty |-> "advanced", duration_suggestion |-> "30 sec each side"],
    [name |-> "eight_angle", types |-> {"arm_balance", "twist"},
     difficulty |-> "advanced", duration_suggestion |-> "30 sec each side"],
    [name |-> "firefly_pose", types |-> {"arm_balance"},
     difficulty |-> "advanced", duration_suggestion |-> "30 sec"],
    [name |-> "scale_pose", types |-> {"arm_balance", "strong_core"},
     difficulty |-> "intermediate", duration_suggestion |-> "30 sec"],
    [name |-> "sun_salutation_a", types |-> {"standing", "forward_fold", "gentle_stretch"},
     difficulty |-> "beginner", duration_suggestion |-> "3-5 rounds"],
    [name |-> "sun_salutation_b", types |-> {"standing", "strong_core"},
     difficulty |-> "intermediate", duration_suggestion |-> "3-5 rounds"],
    [name |-> "flow_lunge_series", types |-> {"standing", "hip_opener"},
     difficulty |-> "intermediate", duration_suggestion |-> "1 min each side"],
    [name |-> "cat_cow_flow", types |-> {"gentle_stretch"},
     difficulty |-> "beginner", duration_suggestion |-> "10 reps"],
    [name |-> "reclined_hand_to_big_toe", types |-> {"forward_fold", "gentle_stretch", "hip_opener"},
     difficulty |-> "beginner", duration_suggestion |-> "1 min each side"],
    [name |-> "yin_dragonfly", types |-> {"yin", "hip_opener", "forward_fold"},
     difficulty |-> "beginner", duration_suggestion |-> "2-5 min"],
    [name |-> "yin_sleeping_swan", types |-> {"yin", "hip_opener"},
     difficulty |-> "beginner", duration_suggestion |-> "2-4 min"],
    [name |-> "yin_caterpillar", types |-> {"yin", "forward_fold"},
     difficulty |-> "beginner", duration_suggestion |-> "2-5 min"],
    [name |-> "yin_bananasana", types |-> {"yin", "side_bend"},
     difficulty |-> "beginner", duration_suggestion |-> "2-4 min"],
    [name |-> "yin_saddle", types |-> {"yin", "backbend"},
     difficulty |-> "intermediate", duration_suggestion |-> "2-4 min"],
    [name |-> "yin_snail", types |-> {"yin", "forward_fold"},
     difficulty |-> "intermediate", duration_suggestion |-> "2-4 min"],
    [name |-> "yin_square", types |-> {"yin", "hip_opener"},
     difficulty |-> "beginner", duration_suggestion |-> "2-4 min"],
    [name |-> "somatic_pelvic_circle", types |-> {"somatic", "gentle_stretch"},
     difficulty |-> "beginner", duration_suggestion |-> "1 min"],
    [name |-> "somatic_spinal_wave", types |-> {"somatic", "gentle_stretch"},
     difficulty |-> "beginner", duration_suggestion |-> "1 min"],
    [name |-> "fascia_roll_back", types |-> {"mobility"},
     difficulty |-> "beginner", duration_suggestion |-> "1 min"],
    [name |-> "hip_cars", types |-> {"mobility", "hip_opener"},
     difficulty |-> "intermediate", duration_suggestion |-> "5 reps each side"],
    [name |-> "shoulder_cars", types |-> {"mobility"},
     difficulty |-> "intermediate", duration_suggestion |-> "5 reps each side"],
    [name |-> "reverse_warrior", types |-> {"standing", "side_bend"},
     difficulty |-> "intermediate", duration_suggestion |-> "30 sec each side"],
    [name |-> "humble_warrior", types |-> {"standing", "forward_fold"},
     difficulty |-> "intermediate", duration_suggestion |-> "30 sec each side"],
    [name |-> "crescent_lunge", types |-> {"standing"},
     difficulty |-> "intermediate", duration_suggestion |-> "30 sec each side"],
    [name |-> "goddess_pose", types |-> {"standing", "hip_opener"},
     difficulty |-> "intermediate", duration_suggestion |-> "30 sec - 1 min"],
    [name |-> "star_pose", types |-> {"standing"},
     difficulty |-> "beginner", duration_suggestion |-> "30 sec"],
    [name |-> "reverse_triangle", types |-> {"standing", "twist"},
     difficulty |-> "intermediate", duration_suggestion |-> "30 sec each side"],
    [name |-> "standing_half_lotus", types |-> {"balance"},
     difficulty |-> "intermediate", duration_suggestion |-> "30 sec each side"],
    [name |-> "warrior_iv", types |-> {"balance", "standing"},
     difficulty |-> "intermediate", duration_suggestion |-> "30 sec each side"],
    [name |-> "airplane_pose", types |-> {"balance"},
     difficulty |-> "intermediate", duration_suggestion |-> "30 sec each side"],
    [name |-> "half_toe_stand", types |-> {"balance"},
     difficulty |-> "intermediate", duration_suggestion |-> "30 sec each side"],
    [name |-> "staff_pose", types |-> {"seated"},
     difficulty |-> "beginner", duration_suggestion |-> "1 min"],
    [name |-> "reverse_tabletop", types |-> {"seated", "backbend"},
     difficulty |-> "beginner", duration_suggestion |-> "30 sec"],
    [name |-> "compass_pose", types |-> {"seated", "hip_opener"},
     difficulty |-> "advanced", duration_suggestion |-> "30 sec each side"],
    [name |-> "tortoise_pose", types |-> {"seated", "forward_fold"},
     difficulty |-> "advanced", duration_suggestion |-> "1 min"],
    [name |-> "bound_lotus", types |-> {"seated"},
     difficulty |-> "advanced", duration_suggestion |-> "1 min"],
    [name |-> "supine_revolved_twist", types |-> {"twist"},
     difficulty |-> "beginner", duration_suggestion |-> "1 min each side"],
    [name |-> "standing_revolved_forward_fold", types |-> {"twist", "standing"},
     difficulty |-> "intermediate", duration_suggestion |-> "30 sec each side"],
    [name |-> "twisted_triangle_bind", types |-> {"twist"},
     difficulty |-> "advanced", duration_suggestion |-> "30 sec each side"],
    [name |-> "puppy_pose", types |-> {"backbend"},
     difficulty |-> "beginner", duration_suggestion |-> "1 min"],
    [name |-> "king_pigeon", types |-> {"backbend"},
     difficulty |-> "advanced", duration_suggestion |-> "30 sec each side"],
    [name |-> "wild_thing", types |-> {"backbend"},
     difficulty |-> "intermediate", duration_suggestion |-> "30 sec each side"],
    [name |-> "drop_back", types |-> {"backbend"},
     difficulty |-> "advanced", duration_suggestion |-> "30 sec"],
    [name |-> "low_boat", types |-> {"strong_core"},
     difficulty |-> "intermediate", duration_suggestion |-> "30 sec"],
    [name |-> "scissor_legs", types |-> {"strong_core"},
     difficulty |-> "intermediate", duration_suggestion |-> "10 reps"],
    [name |-> "bicycle_crunch", types |-> {"strong_core"},
     difficulty |-> "intermediate", duration_suggestion |-> "10 reps"],
    [name |-> "side_crunch", types |-> {"strong_core"},
     difficulty |-> "intermediate", duration_suggestion |-> "10 reps each side"],
    [name |-> "box_breathing", types |-> {"breathing"},
     difficulty |-> "beginner", duration_suggestion |-> "3-5 min"],
    [name |-> "kapalbhati", types |-> {"breathing"},
     difficulty |-> "intermediate", duration_suggestion |-> "1-2 min"],
    [name |-> "bhramari", types |-> {"breathing"},
     difficulty |-> "beginner", duration_suggestion |-> "2-3 min"],
    [name |-> "sitali", types |-> {"breathing"},
     difficulty |-> "beginner", duration_suggestion |-> "2-3 min"],
    [name |-> "side_lying_savasana", types |-> {"restorative"},
     difficulty |-> "beginner", duration_suggestion |-> "5-10 min"],
    [name |-> "supported_child_pose", types |-> {"restorative"},
     difficulty |-> "beginner", duration_suggestion |-> "2-4 min"],
    [name |-> "gentle_cat", types |-> {"gentle_stretch"},
     difficulty |-> "beginner", duration_suggestion |-> "6 reps"],
    [name |-> "seated_side_bend", types |-> {"gentle_stretch"},
     difficulty |-> "beginner", duration_suggestion |-> "1 min each side"]
  >>

\* subset containment instead of any overlap
filter_by_types_subset(poses, allowed_types) ==
  LET Match(pose) == pose.types # {} /\ pose.types \subseteq allowed_types
  IN  SelectSeq(poses, Match)

\* PosePool.filter_by_types over self.poses
filter_by_types(poses, allowed_types) ==
  LET Match(pose) == \E pt \in allowed_types : pt \in pose.types
  IN  SelectSeq(poses, Match)

\* PosePool.filter_by_difficulty over self.poses
filter_by_difficulty(poses, max_difficulty) ==
  LET difficulty_order ==
        [beginner |-> 1, intermediate |-> 2, advanced |-> 3]
      max_level == Get(difficulty_order, max_difficulty, 2)
      Within(pose) == Get(difficulty_order, pose.difficulty, 2) <= max_level
  IN  SelectSeq(poses, Within)

\* PosePool.get_pose_by_name over self.poses: the first entry of that name,
\* None (<<>>) when there is none
get_pose_by_name(poses, name) ==
  LET Named(pose) == pose.name = name
      found == SelectSeq(poses, Named)
  IN  IF found # <<>> THEN found[1] ELSE <<>>

\* PosePool.get_all_poses: a copy of the list self.poses
get_all_poses(poses) == [i \in 1..Len(poses) |-> poses[i]]

\* ------------------------------------------------------ RAGRetriever
\* enrich_poses: a copy of every candidate, in order, with the knowledge
\* keys added.  What the knowledge base holds for a pose is not modelled:
\* the added values are the marker "kb".
enrich_poses(pose_candidates, cycle_phase) ==
  [i \in 1..Len(pose_candidates) |->
     [name |-> pose_candidates[i].name,
      types |-> pose_candidates[i].types,
      difficulty |-> pose_candidates[i].difficulty,
      duration_suggestion |-> pose_candidates[i].duration_suggestion,
      alignment_cues |-> "kb", contraindications |-> "kb",
      benefits |-> "kb", breathing_guidance |-> "kb",
      modifications |-> "kb"]]

\* the candidates are the dicts of the pool themselves; enrichment writing its
\* keys into them instead of into copies
pool_after_enrich_inplace(pool, pose_candidates, cycle_phase) ==
  [i \in 1..Len(pool) |->
     IF \E k \in 1..Len(pose_candidates) :
          pose_candidates[k].name = pool[i].name
     THEN [name |-> pool[i].name,
           types |-> pool[i].types,
           difficulty |-> pool[i].difficulty,
           duration_suggestion |-> pool[i].duration_suggestion,
           alignment_cues |-> "kb", contraindications |-> "kb",
           benefits |-> "kb", breathing_guidance |-> "kb",
           modifications |-> "kb"]
     ELSE pool[i]]

\* what enrich_poses leaves of the pool whose dicts it was handed: it writes
\* only into pose.copy(), so every entry of the pool stays as it was
pool_after_enrich(pool, pose_candidates, cycle_phase) ==
  [i \in 1..Len(pool) |-> pool[i]]

\* ------------------------------------------------------------ PlannerAgent
MainSectionType(intensity) ==
  IF intensity = "low" THEN "gentle_flow"
  ELSE IF intensity = "high" THEN "dynamic_flow"
  ELSE "moderate_flow"

\* the structure dict for given time allocation (description and rationale
\* are display text and left out)
StructureOf(breathing_time, main_time, cool_down_time, intensity, duration) ==
  [structure |->
     <<[section |-> "breathing", minutes |-> breathing_time],
       [section |-> MainSectionType(intensity), minutes |-> main_time],
       [section |-> "cool_down", minutes |-> cool_down_time]>>,
   total_minutes |-> duration]

\* main_time clamped at zero
Planner_generate_rule_based_clamped(state) ==
  LET duration == state.duration_minutes
      Clamp(n) == IF n < 0 THEN 0 ELSE n
  IN  IF duration <= 15
      THEN StructureOf(2, Clamp(duration - 2 - 3), 3, state.intensity, duration)
      ELSE IF duration <= 30
      THEN StructureOf(3, Clamp(duration - 3 - 5), 5, state.intensity, duration)
      ELSE StructureOf(5, Clamp(duration - 5 - 7), 7, state.intensity, duration)

\* the tier boundaries exclusive
Planner_generate_rule_based_strict(state) ==
  LET duration == state.duration_minutes
  IN  IF duration < 15
      THEN StructureOf(2, duration - 2 - 3, 3, state.intensity, duration)
      ELSE IF duration < 30
      THEN StructureOf(3, duration - 3 - 5, 5, state.intensity, duration)
      ELSE StructureOf(5, duration - 5 - 7, 7, state.intensity, duration)

\* PlannerAgent._generate_rule_based
Planner_generate_rule_based(state) ==
  LET duration == state.duration_minutes
  IN  IF duration <= 15
      THEN StructureOf(2, duration - 2 - 3, 3, state.intensity, duration)
      ELSE IF duration <= 30
      THEN StructureOf(3, duration - 3 - 5, 5, state.intensity, duration)
      ELSE StructureOf(5, duration - 5 - 7, 7, state.intensity, duration)

\* ------------------------------------------------------ lists of categories
\* all_types of get_forbidden_pose_types, in its order
all_types ==
  <<"restorative", "gentle_stretch", "standing", "balance", "backbend",
    "forward_fold", "twist", "inversion", "arm_balance", "strong_core",
    "hip_opener", "breathing", "seated", "side_bend", "yin", "somatic",
    "mobility">>

\* str hashes are salted per interpreter process (PYTHONHASHSEED), and the
\* iteration order of a set of str follows the hashes: two of the orders a
\* process can have
HashSeeds == {0, 1}

\* list(set(allowed)) in a process with the given hash seed
ListOfSet(S, seed) ==
  LET n == Len(all_types)
      order == IF seed = 0 THEN all_types
               ELSE [i \in 1..n |-> all_types[n + 1 - i]]
      In(t) == t \in S
  IN  SelectSeq(order, In)

\* state.allowed_pose_types as the list process leaves it: the list
\* get_allowed_pose_types returned, narrowed in place by the focus
allowed_list(state, seed) ==
  LET Focused(t) == t \in state.allowed_pose_types
  IN  SelectSeq(ListOfSet(PoseType \ state.forbidden_pose_types, seed),
                Focused)

\* state.forbidden_pose_types as a list: all_types without the allowed ones
forbidden_list(state) ==
  LET Forbidden(t) == t \in state.forbidden_pose_types
  IN  SelectSeq(all_types, Forbidden)

\* --------------------------------------------------------------- llm/client
\* What llm_client.generate does: it raises, or returns a text.  A text is
\* [fenced, body]: whether the JSON payload sits inside a ``` fenced block
\* (with or without prose around it) and the payload itself.  A payload is
\* [json, lists, value]: json is "invalid" for text that json.loads rejects,
\* else the type of the parsed value; for a dict, value is the dict and lists
\* names its keys whose value is a list.
NoText == [fenced |-> FALSE, body |-> [json |-> "invalid", lists |-> {},
                                       value |-> <<>>]]

LLMPayloads ==
  {[json |-> "invalid", lists |-> {}, value |-> <<>>],
   [json |-> "list", lists |-> {}, value |-> <<1, 2>>],
   [json |-> "dict", lists |-> {}, value |-> [answer |-> 1]],
   [json |-> "dict", lists |-> {}, value |-> [structure |-> 3, sequence |-> 3]],
   [json |-> "dict", lists |-> {"structure"},
    value |-> [structure |->
                 <<[section |-> "breathing", minutes |-> 4],
                   [section |-> "dynamic_flow", minutes |-> 9],
                   [section |-> "cool_down", minutes |-> 4],
                   [section |-> "savasana", minutes |-> 3]>>,
               total_minutes |-> 20]],
   [json |-> "dict", lists |-> {"structure"},
    value |-> [structure |->
                 <<[section |-> "breathing"],
                   [minutes |-> 4],
                   [section |-> "gentle_flow"]>>]],
   [json |-> "dict", lists |-> {"sequence"},
    value |-> [sequence |->
                 <<[section |-> "breathing",
                    poses |-> <<[pose |-> "breath_awareness",
                                 duration |-> <<3, "min">>]>>]>>,
               total_estimated_minutes |-> 20]]}

LLMReplies ==
  {[raises |-> TRUE, text |-> NoText]}
    \cup {[raises |-> FALSE, text |-> [fenced |-> f, body |-> b]] :
            f \in BOOLEAN, b \in LLMPayloads}

\* extract_json: the content of the fenced block if there is one, else the
\* whole text
extract_json(text) ==
  IF text.fenced THEN [fenced |-> FALSE, body |-> text.body] ELSE text

\* json.loads: a text still carrying its fence is not JSON
json_loads(text) ==
  IF text.fenced \/ text.body.json = "invalid"
  THEN [raised |-> TRUE, out |-> text.body]
  ELSE [raised |-> FALSE, out |-> text.body]

\* the try block of _generate_with_llm up to the isinstance check of key
LLMAccepts_anydict(reply, key) ==
  /\ ~reply.raises
  /\ LET loaded == json_loads(extract_json(reply.text))
     IN  /\ ~loaded.raised
         /\ loaded.out.json = "dict"
         /\ key \in DOMAIN loaded.out.value

LLMAccepts(reply, key) ==
  /\ ~reply.raises
  /\ LET loaded == json_loads(extract_json(reply.text))
     IN  /\ ~loaded.raised
         /\ loaded.out.json = "dict"
         /\ key \in DOMAIN loaded.out.value
         /\ key \in loaded.out.lists

\* PlannerAgent._generate_with_llm
Planner_generate_with_llm(state, reply) ==
  IF LLMAccepts(reply, "structure")
  THEN json_loads(extract_json(reply.text)).out.value
  ELSE Planner_generate_rule_based(state)

\* ---------------------------------------------------------- SequencerAgent
\* poses[:n]
Take(poses, n) == SubSeq(poses, 1, IF Len(poses) < n THEN Len(poses) ELSE n)

\* without the poses[:10] fallback
filter_poses_for_phase_nofallback(poses, phase, intensity) ==
  LET Keep(pose) ==
        IF phase = "menstrual" THEN
          /\ \E pt \in pose.types :
               pt \in {"restorative", "gentle_stretch", "breathing",
                       "forward_fold"}
          /\ (intensity = "low" \/ pose.difficulty = "beginner")
        ELSE IF phase = "ovulation" THEN
          (IF intensity = "high" THEN TRUE ELSE pose.difficulty # "advanced")
        ELSE pose.difficulty # "advanced"
  IN  SelectSeq(poses, Keep)

\* SequencerAgent._filter_poses_for_phase
filter_poses_for_phase(poses, phase, intensity) ==
  LET Keep(pose) ==
        IF phase = "menstrual" THEN
          /\ \E pt \in pose.types :
               pt \in {"restorative", "gentle_stretch", "breathing",
                       "forward_fold"}
          /\ (intensity = "low" \/ pose.difficulty = "beginner")
        ELSE IF phase = "ovulation" THEN
          (IF intensity = "high" THEN TRUE ELSE pose.difficulty # "advanced")
        ELSE pose.difficulty # "advanced"
      filtered == SelectSeq(poses, Keep)
  IN  IF filtered # <<>> THEN filtered ELSE Take(poses, 10)

\* the loop stopping only once the whole budget is used
RECURSIVE MainLoop_noreserve(_, _, _, _, _)
MainLoop_noreserve(main_poses, i, selected, time_used, minutes) ==
  IF i > Len(main_poses) \/ time_used >= minutes
  THEN selected
  ELSE MainLoop_noreserve(main_poses, i + 1,
                          Append(selected,
                                 [pose |-> main_poses[i].name,
                                  duration |->
                                    main_poses[i].duration_suggestion]),
                          time_used + 1, minutes)

\* the "Add main poses" loop of _select_main_poses from position i on
RECURSIVE MainLoop(_, _, _, _, _)
MainLoop(main_poses, i, selected, time_used, minutes) ==
  IF i > Len(main_poses) \/ time_used >= minutes - 2
  THEN selected
  ELSE MainLoop(main_poses, i + 1,
                Append(selected,
                       [pose |-> main_poses[i].name,
                        duration |-> main_poses[i].duration_suggestion]),
                time_used + 1, minutes)

\* SequencerAgent._select_main_poses (the notes of a pick are display text
\* and left out)
select_main_poses(poses, minutes, intensity) ==
  LET IsWarmUp(pose) == "gentle_stretch" \in pose.types
      warm_up == SelectSeq(poses, IsWarmUp)
      selected0 ==
        IF warm_up # <<>>
        THEN <<[pose |-> warm_up[1].name, reps |-> 6]>>
        ELSE <<>>
      time_used0 == IF warm_up # <<>> THEN 2 ELSE 0
      NotSelected(pose) ==
        \A k \in 1..Len(selected0) : selected0[k].pose # pose.name
      main_poses == SelectSeq(poses, NotSelected)
  IN  MainLoop(Take(main_poses, 5), 1, selected0, time_used0, minutes)

\* the cool-down limited to two poses
select_cool_down_poses_two(poses, minutes) ==
  LET IsCoolDown(pose) ==
        \E pt \in pose.types :
          pt \in {"restorative", "gentle_stretch", "forward_fold"}
      cool_down_poses == Take(SelectSeq(poses, IsCoolDown), 2)
      selected ==
        [k \in 1..Len(cool_down_poses) |->
           [pose |-> cool_down_poses[k].name,
            duration |-> cool_down_poses[k].duration_suggestion]]
  IN  IF selected # <<>> THEN selected
      ELSE <<[pose |-> "child_pose", duration |-> <<minutes, "min">>]>>

\* SequencerAgent._select_cool_down_poses; f"{minutes} min" is <<minutes, "min">>
select_cool_down_poses(poses, minutes) ==
  LET IsCoolDown(pose) ==
        \E pt \in pose.types :
          pt \in {"restorative", "gentle_stretch", "forward_fold"}
      cool_down_poses == Take(SelectSeq(poses, IsCoolDown), 3)
      selected ==
        [k \in 1..Len(cool_down_poses) |->
           [pose |-> cool_down_poses[k].name,
            duration |-> cool_down_poses[k].duration_suggestion]]
  IN  IF selected # <<>> THEN selected
      ELSE <<[pose |-> "child_pose", duration |-> <<minutes, "min">>]>>

\* the total taken from the body state instead of the structure
Sequencer_generate_rule_based_duration(struct, state, enriched) ==
  LET suitable_poses ==
        filter_poses_for_phase(enriched, state.cycle_phase, state.intensity)
      sections == Get(struct, "structure", <<>>)
      PosesOf(section) ==
        LET section_name == Get(section, "section", "None")
            section_minutes == Get(section, "minutes", 5)
        IN  IF section_name = "breathing"
            THEN <<[pose |-> "breath_awareness",
                    duration |-> <<section_minutes, "min">>]>>
            ELSE IF section_name
                      \in {"gentle_flow", "moderate_flow", "dynamic_flow"}
            THEN select_main_poses(suitable_poses, section_minutes,
                                   state.intensity)
            ELSE IF section_name = "cool_down"
            THEN select_cool_down_poses(suitable_poses, section_minutes)
            ELSE <<>>
  IN  [sequence |->
         [k \in 1..Len(sections) |->
            [section |-> Get(sections[k], "section", "None"),
             poses |-> PosesOf(sections[k])]],
       total_estimated_minutes |-> state.duration_minutes]

\* SequencerAgent._generate_rule_based; section.get("section") of a section
\* without that key is None, written "None"
Sequencer_generate_rule_based(struct, state, enriched) ==
  LET suitable_poses ==
        filter_poses_for_phase(enriched, state.cycle_phase, state.intensity)
      sections == Get(struct, "structure", <<>>)
      PosesOf(section) ==
        LET section_name == Get(section, "section", "None")
            section_minutes == Get(section, "minutes", 5)
        IN  IF section_name = "breathing"
            THEN <<[pose |-> "breath_awareness",
                    duration |-> <<section_minutes, "min">>]>>
            ELSE IF section_name
                      \in {"gentle_flow", "moderate_flow", "dynamic_flow"}
            THEN select_main_poses(suitable_poses, section_minutes,
                                   state.intensity)
            ELSE IF section_name = "cool_down"
            THEN select_cool_down_poses(suitable_poses, section_minutes)
            ELSE <<>>
  IN  [sequence |->
         [k \in 1..Len(sections) |->
            [section |-> Get(sections[k], "section", "None"),
             poses |-> PosesOf(sections[k])]],
       total_estimated_minutes |-> Get(struct, "total_minutes", 20)]

\* SequencerAgent._generate_with_llm
Sequencer_generate_with_llm(struct, state, enriched, reply) ==
  IF LLMAccepts(reply, "sequence")
  THEN json_loads(extract_json(reply.text)).out.value
  ELSE Sequencer_generate_rule_based(struct, state, enriched)

\* ---------------------------------------------------------------- inputs
StartDate == <<2026, 1, 20>>

Calendar ==
  {<<y, m, d>> : y \in {2025, 2026}, m \in 1..12, d \in 1..31}

DatesAround(before, after) ==
  {s \in Calendar :
     /\ ValidDate(s)
     /\ ToOrdinal(s) - ToOrdinal(StartDate) \in (0 - before)..after}

\* an unparsable date string, the empty string, and a parsable one
MalformedDate == <<2026, 2, 30>>

InputLevels == 0..6
FocusChoices == {"twist", "inversion", "restorative"}

FullInputs ==
  {[last_period_date |-> StartDate, cycle_length |-> c, energy |-> e,
    pain |-> p, duration |-> 20, training_focus |-> f] :
      c \in {0, 28}, e \in InputLevels, p \in InputLevels,
      f \in SUBSET FocusChoices}

SparseInputs ==
  {[last_period_date |-> StartDate],
   [last_period_date |-> <<>>],
   [last_period_date |-> MalformedDate],
   [energy |-> 2, pain |-> 3],
   [last_period_date |-> StartDate, cycle_length |-> 0 - 28]}

\* every duration, also a non-positive one, at each intensity
DurationInputs ==
  {[last_period_date |-> StartDate, energy |-> e, pain |-> 1,
    duration |-> u] :
      e \in {1, 3, 5}, u \in (0 - 1)..MaxDuration}

UserInputs == FullInputs \cup SparseInputs \cup DurationInputs

\* names looked up with get_pose_by_name, one of them not in the catalogue
LookupNames ==
  {"child_pose", "legs_up_wall", "seated_side_bend", "flying_carpet"}

\* max_difficulty handed to filter_by_difficulty, one of them unknown
DifficultyChoices == {"beginner", "intermediate", "advanced", "expert"}

\* the inputs of the repeated runs
RepeatInputs ==
  {[last_period_date |-> StartDate, energy |-> e, pain |-> p,
    duration |-> 20, training_focus |-> f] :
      e \in {1, 3, 5}, p \in {1, 4}, f \in {{}, {"twist", "inversion"}}}

\* the inputs the pipeline runs on when its agents hold an llm_client
LLMInputs ==
  {[last_period_date |-> StartDate, energy |-> e, pain |-> 1,
    duration |-> u] :
      e \in {1, 3, 5}, u \in {5, 20, 45}}

\* ------------------------------------------------------------------ state
VARIABLES
  pc,           \* "idle", "phase" (calculate_cycle_phase returned),
                \* "state" (process returned), "error" (either raised)
  user_input,   \* the dict handed to process
  today,        \* the date datetime.now() reads during the call
  body_state,   \* the BodyState process returned
  raised,       \* the exception raised, "no" if none
  cycle_call,   \* arguments and result of a direct calculate_cycle_phase call
  called,       \* SafetyRules methods invoked on body_state
  rule_allowed, rule_forbidden, rule_intensity,  \* what they returned
  filter_types,     \* the allowed_types handed to filter_by_types
  pose_candidates,  \* what filter_by_types returned
  enriched_poses,   \* what enrich_poses returned
  structure,        \* what PlannerAgent.generate_structure returned
  sequence,         \* what SequencerAgent.generate_sequence returned
  pool_poses,       \* PosePool.poses, the catalogue
  llm_client,       \* whether the agents were constructed with an llm_client
  llm_raw,          \* what llm_client.generate did, call by call
  seq_call,         \* arguments and result of a direct call of one of the
                    \* SequencerAgent helpers on pose_candidates
  pool_call,        \* a direct call of filter_by_difficulty,
                    \* get_pose_by_name or get_all_poses and what it returned
  runs              \* the runs of process + rule-based structure made on
                    \* one input, each in an interpreter process of its own

pipeline_vars ==
  <<filter_types, pose_candidates, enriched_poses, structure, sequence,
    pool_poses, llm_client, llm_raw>>

llm_vars == <<llm_client, llm_raw>>

direct_vars == <<seq_call, pool_call, runs>>

engine_vars ==
  <<user_input, today, body_state, raised, cycle_call, called,
    rule_allowed, rule_forbidden, rule_intensity>>

vars ==
  <<pc, user_input, today, body_state, raised, cycle_call, called,
    rule_allowed, rule_forbidden, rule_intensity, filter_types,
    pose_candidates, enriched_poses, structure, sequence, llm_client,
    llm_raw, pool_poses, seq_call, pool_call, runs>>

NoStructure == [structure |-> <<>>, total_minutes |-> 0]
NoSequence == [sequence |-> <<>>, total_estimated_minutes |-> 0]

NoPoolCall == [op |-> "none", arg |-> "none", result |-> <<>>]

NoSeqCall ==
  [op |-> "none", phase |-> "none", intensity |-> "none", minutes |-> 0,
   result |-> <<>>]

NoCall ==
  [last_period_date |-> <<>>, cycle_length |-> 0, current_date |-> <<>>,
   phase |-> "none", day |-> 0]

Init ==
  /\ pc = "idle"
  /\ user_input = [energy |-> 3]
  /\ today = StartDate
  /\ body_state = NoState
  /\ raised = "no"
  /\ cycle_call = NoCall
  /\ called = {}
  /\ rule_allowed = {}
  /\ rule_forbidden = {}
  /\ rule_intensity = "none"
  /\ filter_types = {}
  /\ pose_candidates = <<>>
  /\ enriched_poses = <<>>
  /\ structure = NoStructure
  /\ sequence = NoSequence
  /\ llm_client \in BOOLEAN
  /\ llm_raw = <<>>
  /\ pool_poses = PosePoolPoses
  /\ seq_call = NoSeqCall
  /\ pool_call = NoPoolCall
  /\ runs = <<>>

\* calculate_cycle_phase(last_period_date, cycle_length, current_date)
CalculateCyclePhase ==
  /\ pc = "idle"
  /\ \E cycle_length \in (0 - 2)..MaxCycleLength,
        current_date \in DatesAround(MaxDaysBefore, MaxDaysAfter) :
       LET r == calculate_cycle_phase(StartDate, cycle_length, current_date)
       IN  /\ cycle_call' =
                [last_period_date |-> StartDate,
                 cycle_length |-> cycle_length,
                 current_date |-> current_date,
                 phase |-> r.phase, day |-> r.day]
           /\ raised' = r.raised
           /\ pc' = IF r.raised = "no" THEN "phase" ELSE "error"
  /\ UNCHANGED <<user_input, today, body_state, called, rule_allowed,
                 rule_forbidden, rule_intensity>>
  /\ UNCHANGED pipeline_vars
  /\ UNCHANGED direct_vars

\* BodyStateEngine.process(user_input)
Process ==
  /\ pc = "idle"
  /\ \E input \in (IF llm_client THEN LLMInputs ELSE UserInputs),
        now \in DatesAround(MaxProcessBefore, MaxProcessAfter) :
       LET r == process(input, now)
       IN  /\ user_input' = input
           /\ today' = now
           /\ body_state' = r.state
           /\ raised' = r.raised
           /\ pc' = IF r.raised = "no" THEN "state" ELSE "error"
  /\ UNCHANGED <<cycle_call, called, rule_allowed, rule_forbidden,
                 rule_intensity>>
  /\ UNCHANGED pipeline_vars
  /\ UNCHANGED direct_vars

\* SafetyRules.get_allowed_pose_types(body_state)
GetAllowedPoseTypes ==
  /\ pc = "state"
  /\ "allowed" \notin called
  /\ rule_allowed' = get_allowed_pose_types(body_state)
  /\ called' = called \cup {"allowed"}
  /\ UNCHANGED <<pc, user_input, today, body_state, raised, cycle_call,
                 rule_forbidden, rule_intensity>>
  /\ UNCHANGED pipeline_vars
  /\ UNCHANGED direct_vars

\* SafetyRules.get_forbidden_pose_types(body_state)
GetForbiddenPoseTypes ==
  /\ pc = "state"
  /\ "forbidden" \notin called
  /\ rule_forbidden' = get_forbidden_pose_types(body_state)
  /\ called' = called \cup {"forbidden"}
  /\ UNCHANGED <<pc, user_input, today, body_state, raised, cycle_call,
                 rule_allowed, rule_intensity>>
  /\ UNCHANGED pipeline_vars
  /\ UNCHANGED direct_vars

\* SafetyRules.get_intensity_level(body_state)
GetIntensityLevel ==
  /\ pc = "state"
  /\ "intensity" \notin called
  /\ rule_intensity' = get_intensity_level(body_state)
  /\ called' = called \cup {"intensity"}
  /\ UNCHANGED <<pc, user_input, today, body_state, raised, cycle_call,
                 rule_allowed, rule_forbidden>>
  /\ UNCHANGED pipeline_vars
  /\ UNCHANGED direct_vars

\* PosePool.filter_by_types, called directly with a short allowed_types list
\* or, as step 2 of the pipeline, with body_state.allowed_pose_types
FilterByTypes ==
  /\ \/ /\ pc = "idle"
        /\ \E allowed_types \in SUBSET PoseType :
             /\ Cardinality(allowed_types) <= MaxFilterTypes
             /\ filter_types' = allowed_types
        /\ pc' = "filtered"
     \/ /\ pc = "state"
        /\ called = {}
        /\ filter_types' = body_state.allowed_pose_types
        /\ pc' = "candidates"
  /\ pose_candidates' = filter_by_types(pool_poses, filter_types')
  /\ UNCHANGED engine_vars
  /\ UNCHANGED <<enriched_poses, structure, sequence, pool_poses>>
  /\ UNCHANGED llm_vars
  /\ UNCHANGED direct_vars

\* step 3 of the pipeline: RAGRetriever.enrich_poses
EnrichPoses ==
  /\ pc = "candidates"
  /\ enriched_poses' = enrich_poses(pose_candidates, body_state.cycle_phase)
  /\ pool_poses' =
       pool_after_enrich(pool_poses, pose_candidates, body_state.cycle_phase)
  /\ pc' = "enriched"
  /\ UNCHANGED engine_vars
  /\ UNCHANGED <<filter_types, pose_candidates, structure, sequence>>
  /\ UNCHANGED llm_vars
  /\ UNCHANGED direct_vars

\* step 4: PlannerAgent.generate_structure
GenerateStructure ==
  /\ pc = "enriched"
  /\ \/ /\ llm_client
        /\ \E reply \in LLMReplies :
             /\ structure' = Planner_generate_with_llm(body_state, reply)
             /\ llm_raw' = Append(llm_raw, reply)
     \/ /\ ~llm_client
        /\ structure' = Planner_generate_rule_based(body_state)
        /\ llm_raw' = llm_raw
  /\ pc' = "structure"
  /\ UNCHANGED engine_vars
  /\ UNCHANGED <<filter_types, pose_candidates, enriched_poses, sequence,
                 pool_poses, llm_client>>
  /\ UNCHANGED direct_vars

\* step 5: SequencerAgent.generate_sequence
GenerateSequence ==
  /\ pc = "structure"
  /\ \/ /\ llm_client
        /\ \E reply \in LLMReplies :
             /\ sequence' =
                  Sequencer_generate_with_llm(structure, body_state,
                                              enriched_poses, reply)
             /\ llm_raw' = Append(llm_raw, reply)
     \/ /\ ~llm_client
        /\ sequence' =
             Sequencer_generate_rule_based(structure, body_state,
                                           enriched_poses)
        /\ llm_raw' = llm_raw
  /\ pc' = "sequence"
  /\ UNCHANGED engine_vars
  /\ UNCHANGED <<filter_types, pose_candidates, enriched_poses, structure,
                 pool_poses, llm_client>>
  /\ UNCHANGED direct_vars

\* SequencerAgent._filter_poses_for_phase, called directly on the list an
\* earlier filter_by_types call returned
FilterPosesForPhase ==
  /\ pc = "filtered"
  /\ \E phase \in CyclePhase, intensity \in IntensityLevel :
       seq_call' =
         [op |-> "filter_poses_for_phase", phase |-> phase,
          intensity |-> intensity, minutes |-> 0,
          result |-> filter_poses_for_phase(pose_candidates, phase, intensity)]
  /\ pc' = "called"
  /\ UNCHANGED engine_vars
  /\ UNCHANGED pipeline_vars
  /\ UNCHANGED <<pool_call, runs>>

\* SequencerAgent._select_main_poses, called directly
SelectMainPoses ==
  /\ pc = "filtered"
  /\ \E minutes \in (0 - 2)..MaxSectionMinutes, intensity \in IntensityLevel :
       seq_call' =
         [op |-> "select_main_poses", phase |-> "none",
          intensity |-> intensity, minutes |-> minutes,
          result |-> select_main_poses(pose_candidates, minutes, intensity)]
  /\ pc' = "called"
  /\ UNCHANGED engine_vars
  /\ UNCHANGED pipeline_vars
  /\ UNCHANGED <<pool_call, runs>>

\* SequencerAgent._select_cool_down_poses, called directly
SelectCoolDownPoses ==
  /\ pc = "filtered"
  /\ \E minutes \in (0 - 2)..MaxSectionMinutes :
       seq_call' =
         [op |-> "select_cool_down_poses", phase |-> "none",
          intensity |-> "none", minutes |-> minutes,
          result |-> select_cool_down_poses(pose_candidates, minutes)]
  /\ pc' = "called"
  /\ UNCHANGED engine_vars
  /\ UNCHANGED pipeline_vars
  /\ UNCHANGED <<pool_call, runs>>

\* what one run of process followed by the rule-based structure stage
\* outputs in a process with the given hash seed
RunOutput(input, now, seed) ==
  LET r == process(input, now)
  IN  IF r.raised # "no"
      THEN [raised |-> r.raised, state |-> NoState, allowed |-> <<>>,
            forbidden |-> <<>>, structure |-> NoStructure]
      ELSE [raised |-> "no", state |-> r.state,
            allowed |-> allowed_list(r.state, seed),
            forbidden |-> forbidden_list(r.state),
            structure |-> Planner_generate_rule_based(r.state)]

\* process + rule-based structure, run on an input and then run again on the
\* same input at the same date
RunDeterministicPipeline ==
  /\ ~llm_client
  /\ \/ /\ pc = "idle"
        /\ \E input \in RepeatInputs,
              now \in DatesAround(MaxProcessBefore, MaxProcessAfter),
              seed \in HashSeeds :
             runs' = <<[input |-> input, now |-> now, seed |-> seed,
                        out |-> RunOutput(input, now, seed)]>>
     \/ /\ pc = "ran"
        /\ Len(runs) < MaxRuns
        /\ \E seed \in HashSeeds :
             runs' = Append(runs,
                            [input |-> runs[1].input, now |-> runs[1].now,
                             seed |-> seed,
                             out |-> RunOutput(runs[1].input, runs[1].now,
                                               seed)])
  /\ pc' = "ran"
  /\ UNCHANGED engine_vars
  /\ UNCHANGED pipeline_vars
  /\ UNCHANGED <<seq_call, pool_call>>

\* PosePool.filter_by_difficulty, called directly
FilterByDifficulty ==
  /\ pc = "idle"
  /\ \E max_difficulty \in DifficultyChoices :
       pool_call' =
         [op |-> "filter_by_difficulty", arg |-> max_difficulty,
          result |-> filter_by_difficulty(pool_poses, max_difficulty)]
  /\ pc' = "pool"
  /\ UNCHANGED engine_vars
  /\ UNCHANGED pipeline_vars
  /\ UNCHANGED <<seq_call, runs>>

\* PosePool.get_pose_by_name, called directly
GetPoseByName ==
  /\ pc = "idle"
  /\ \E name \in LookupNames :
       pool_call' =
         [op |-> "get_pose_by_name", arg |-> name,
          result |-> get_pose_by_name(pool_poses, name)]
  /\ pc' = "pool"
  /\ UNCHANGED engine_vars
  /\ UNCHANGED pipeline_vars
  /\ UNCHANGED <<seq_call, runs>>

\* PosePool.get_all_poses, called directly
GetAllPoses ==
  /\ pc = "idle"
  /\ pool_call' =
       [op |-> "get_all_poses", arg |-> "none",
        result |-> get_all_poses(pool_poses)]
  /\ pc' = "pool"
  /\ UNCHANGED engine_vars
  /\ UNCHANGED pipeline_vars
  /\ UNCHANGED <<seq_call, runs>>

Next ==
  \/ CalculateCyclePhase
  \/ Process
  \/ GetAllowedPoseTypes
  \/ GetForbiddenPoseTypes
  \/ GetIntensityLevel
  \/ FilterByTypes
  \/ EnrichPoses
  \/ GenerateStructure
  \/ GenerateSequence
  \/ FilterPosesForPhase
  \/ SelectMainPoses
  \/ SelectCoolDownPoses
  \/ RunDeterministicPipeline
  \/ FilterByDifficulty
  \/ GetPoseByName
  \/ GetAllPoses

Spec == Init /\ [][Next]_vars

\* ------------------------------------------------------------ properties
\* process returned a BodyState whose energy and pain are on the 1-5 scale
ValidState ==
  /\ pc = "state"
  /\ body_state.energy_level \in 1..5
  /\ body_state.pain_level \in 1..5

\* C1: for every phase, energy 1..5 and pain 1..5 the sets returned by
\* get_allowed_pose_types and get_forbidden_pose_types are disjoint and
\* their union is exactly the 17-category universe.
C1_AllowedForbiddenPartition ==
  (ValidState /\ {"allowed", "forbidden"} \subseteq called) =>
    /\ rule_allowed \cap rule_forbidden = {}
    /\ rule_allowed \cup rule_forbidden = PoseType
    /\ Cardinality(rule_allowed \cup rule_forbidden) = 17

C1_Witness ==
  /\ ValidState
  /\ {"allowed", "forbidden"} \subseteq called
  /\ body_state.cycle_phase = "follicular"
  /\ body_state.energy_level = 1
  /\ Cardinality(rule_forbidden) = 15

\* C2: the BodyState returned by process satisfies allowed and forbidden
\* disjoint and allowed union forbidden = the full category universe, also
\* when a training focus has narrowed the allowed set.
C2_BodyStatePartition ==
  ValidState =>
    /\ body_state.allowed_pose_types \cap body_state.forbidden_pose_types = {}
    /\ body_state.allowed_pose_types \cup body_state.forbidden_pose_types
         = PoseType

\* C3: for every phase and pain 1..5, energy <= 1 gives exactly
\* {restorative, breathing} as the allowed set.
C3_VeryLowEnergy ==
  (ValidState /\ "allowed" \in called /\ body_state.energy_level <= 1) =>
    rule_allowed = {"restorative", "breathing"}

C3_Witness ==
  /\ ValidState
  /\ "allowed" \in called
  /\ body_state.energy_level = 1
  /\ body_state.cycle_phase = "ovulation"
  /\ body_state.pain_level = 4
  /\ rule_allowed = {"restorative", "breathing"}

\* C4 as stated: each override pass (pain, then energy) yields a subset of
\* the set it received, so the final allowed set is a subset of the phase's
\* base set.
C4_EveryPassShrinks ==
  (ValidState /\ "allowed" \in called) =>
    LET base == BasePoseTypes(body_state.cycle_phase, body_state.energy_level)
        afterPain == PainPass(base, body_state.pain_level)
        afterEnergy == EnergyPass(afterPain, body_state.energy_level)
    IN  /\ afterPain \subseteq base
        /\ afterEnergy \subseteq afterPain
        /\ rule_allowed \subseteq base

\* C4 amended: the pain pass yields a subset of the set it received; for
\* energy >= 2 the energy pass does too and the final allowed set is a
\* subset of the phase's base set; for energy <= 1 the energy pass replaces
\* the set, and the only category it can add to the base set is restorative.
C4_PassesShrinkUnlessReplaced ==
  (ValidState /\ "allowed" \in called) =>
    LET base == BasePoseTypes(body_state.cycle_phase, body_state.energy_level)
        afterPain == PainPass(base, body_state.pain_level)
        afterEnergy == EnergyPass(afterPain, body_state.energy_level)
    IN  /\ afterPain \subseteq base
        /\ rule_allowed = afterEnergy
        /\ body_state.energy_level >= 2 =>
             (afterEnergy \subseteq afterPain /\ rule_allowed \subseteq base)
        /\ body_state.energy_level <= 1 =>
             rule_allowed \ base \subseteq {"restorative"}

C4_Witness ==
  /\ ValidState
  /\ "allowed" \in called
  /\ body_state.cycle_phase = "ovulation"
  /\ body_state.energy_level = 2
  /\ body_state.pain_level = 4
  /\ rule_allowed # BasePoseTypes("ovulation", 2)
  /\ rule_allowed \subseteq BasePoseTypes("ovulation", 2)

\* C5: whenever pain >= 4 the final allowed set is a subset of
\* {restorative, gentle_stretch, breathing, yin, somatic, mobility}; the
\* energy pass re-admits nothing outside that list.
C5_HighPainVeryGentle ==
  (ValidState /\ "allowed" \in called /\ body_state.pain_level >= 4) =>
    rule_allowed \subseteq
      {"restorative", "gentle_stretch", "breathing", "yin", "somatic",
       "mobility"}

C5_Witness ==
  /\ ValidState
  /\ "allowed" \in called
  /\ body_state.pain_level = 4
  /\ body_state.cycle_phase = "ovulation"
  /\ body_state.energy_level = 5
  /\ rule_allowed =
       {"gentle_stretch", "breathing", "yin", "somatic", "mobility"}

\* C6: whenever pain >= 3 the final allowed set contains none of inversion,
\* arm_balance, strong_core, backbend.
C6_PainExcludesIntense ==
  (ValidState /\ "allowed" \in called /\ body_state.pain_level >= 3) =>
    rule_allowed \cap {"inversion", "arm_balance", "strong_core", "backbend"}
      = {}

C6_Witness ==
  /\ ValidState
  /\ "allowed" \in called
  /\ body_state.pain_level = 3
  /\ body_state.cycle_phase = "ovulation"
  /\ body_state.energy_level = 5
  /\ "standing" \in rule_allowed
  /\ "backbend" \notin rule_allowed

\* C7: with phase and energy fixed, raising pain 2 -> 3 -> 4 never increases
\* the number of allowed categories.
C7_PainMonotone ==
  (ValidState /\ "allowed" \in called /\ body_state.pain_level \in {2, 3}) =>
    Cardinality(get_allowed_pose_types(
        [body_state EXCEPT !.pain_level = body_state.pain_level + 1]))
      <= Cardinality(rule_allowed)

C7_Witness ==
  /\ ValidState
  /\ "allowed" \in called
  /\ body_state.pain_level = 3
  /\ body_state.cycle_phase = "ovulation"
  /\ body_state.energy_level = 4
  /\ Cardinality(get_allowed_pose_types(
         [body_state EXCEPT !.pain_level = 4])) < Cardinality(rule_allowed)
  /\ Cardinality(rule_allowed) < Cardinality(get_allowed_pose_types(
         [body_state EXCEPT !.pain_level = 2]))

\* the decision list C8 states
ReferenceIntensity(phase, energy, pain) ==
  CASE pain >= 3 -> "low"
    [] pain < 3 /\ energy <= 2 -> "low"
    [] pain < 3 /\ energy > 2 /\ phase = "menstrual" -> "low"
    [] pain < 3 /\ energy >= 4 /\ phase = "ovulation" -> "high"
    [] OTHER -> "moderate"

\* C8: get_intensity_level equals the reference decision list for every
\* phase, energy 1..5 and pain 1..5; the pain check overrides the rest.
C8_IntensityDecisionList ==
  (ValidState /\ "intensity" \in called) =>
    /\ rule_intensity =
         ReferenceIntensity(body_state.cycle_phase, body_state.energy_level,
                            body_state.pain_level)
    /\ body_state.pain_level >= 3 => rule_intensity = "low"

C8_Witness ==
  /\ ValidState
  /\ "intensity" \in called
  /\ body_state.cycle_phase = "ovulation"
  /\ body_state.energy_level = 5
  /\ body_state.pain_level = 3
  /\ rule_intensity = "low"

\* C9: for every positive cycle_length and every pair of dates, also when
\* the as-of date precedes the cycle start, 0 <= day_index < cycle_length.
C9_DayIndexRange ==
  /\ (pc = "phase" /\ cycle_call.cycle_length > 0) =>
       (0 <= cycle_call.day /\ cycle_call.day < cycle_call.cycle_length)
  /\ (pc = "state" /\ body_state.cycle_length > 0) =>
       (0 <= body_state.day_in_cycle
          /\ body_state.day_in_cycle < body_state.cycle_length)

C9_Witness ==
  /\ pc = "phase"
  /\ cycle_call.cycle_length = 28
  /\ ToOrdinal(cycle_call.current_date)
       < ToOrdinal(cycle_call.last_period_date)
  /\ cycle_call.day = 25

\* C10: day_index maps to the phase by absolute thresholds, whatever the
\* cycle_length: 0..5 menstrual, 6..13 follicular, 14..16 ovulation, 17 and
\* above luteal; as_of = start gives (menstrual, 0) and 13 elapsed days on a
\* 28-day cycle give (follicular, 13).
C10_AbsoluteThresholds ==
  pc = "phase" =>
    /\ cycle_call.day \in 0..5 => cycle_call.phase = "menstrual"
    /\ cycle_call.day \in 6..13 => cycle_call.phase = "follicular"
    /\ cycle_call.day \in 14..16 => cycle_call.phase = "ovulation"
    /\ cycle_call.day >= 17 => cycle_call.phase = "luteal"
    /\ cycle_call.current_date = cycle_call.last_period_date =>
         (cycle_call.phase = "menstrual" /\ cycle_call.day = 0)
    /\ (cycle_call.last_period_date = <<2026, 1, 20>>
          /\ cycle_call.current_date = <<2026, 2, 2>>
          /\ cycle_call.cycle_length = 28) =>
         (cycle_call.phase = "follicular" /\ cycle_call.day = 13)

C10_Witness ==
  /\ pc = "phase"
  /\ cycle_call.cycle_length = 40
  /\ cycle_call.current_date = <<2026, 2, 8>>
  /\ cycle_call.day = 19
  /\ cycle_call.phase = "luteal"

\* C11 as stated: with cycle_length = 40 no as-of date gives ovulation.
C11_NoOvulationAt40 ==
  (pc = "phase" /\ cycle_call.cycle_length = 40) =>
    cycle_call.phase # "ovulation"

\* C11 amended: with cycle_length = 40 ovulation is returned exactly for the
\* day indices 14, 15 and 16, so it is reachable; ovulation is unreachable
\* only for a cycle_length of at most 14.
C11_OvulationWindowAt40 ==
  /\ (pc = "phase" /\ cycle_call.cycle_length = 40) =>
       (cycle_call.phase = "ovulation" <=> cycle_call.day \in 14..16)
  /\ (pc = "phase" /\ cycle_call.cycle_length \in 1..14) =>
       cycle_call.phase # "ovulation"

C11_Witness ==
  /\ pc = "phase"
  /\ cycle_call.cycle_length = 40
  /\ cycle_call.day = 16
  /\ cycle_call.phase = "ovulation"

\* the focus the caller supplied
RawFocus == Get(user_input, "training_focus", {})

\* C12: focus narrowing never produces an empty allowed set; a non-empty
\* focus that shares nothing with the rule-derived allowed set leaves the
\* allowed set as the rules derived it.
C12_FocusNeverEmpties ==
  ValidState =>
    /\ body_state.allowed_pose_types # {}
    /\ ("allowed" \in called /\ RawFocus # {}
          /\ RawFocus \cap rule_allowed = {}) =>
         body_state.allowed_pose_types = rule_allowed

C12_Witness ==
  /\ ValidState
  /\ "allowed" \in called
  /\ RawFocus = {"inversion"}
  /\ body_state.training_focus = {"inversion"}
  /\ "inversion" \notin rule_allowed
  /\ body_state.allowed_pose_types = rule_allowed

\* C13 as stated: a non-empty focus drawn from the 17 categories that meets
\* the rule-derived allowed set makes the allowed set exactly that
\* intersection.
C13_FocusIntersection ==
  (ValidState /\ "allowed" \in called /\ RawFocus \subseteq PoseType
     /\ RawFocus \cap rule_allowed # {}) =>
    body_state.allowed_pose_types = RawFocus \cap rule_allowed

\* C13 amended: only the seven focusable categories (seated, forward_fold,
\* backbend, twist, side_bend, balance, inversion) of the focus count; when
\* they meet the rule-derived allowed set the allowed set is exactly that
\* intersection, otherwise it is the rule-derived set.
C13_ValidFocusIntersection ==
  (ValidState /\ "allowed" \in called /\ RawFocus \subseteq PoseType) =>
    LET focusable ==
          RawFocus \cap {"seated", "forward_fold", "backbend", "twist",
                         "side_bend", "balance", "inversion"}
    IN  /\ focusable \cap rule_allowed # {} =>
             body_state.allowed_pose_types = focusable \cap rule_allowed
        /\ focusable \cap rule_allowed = {} =>
             body_state.allowed_pose_types = rule_allowed

C13_Witness ==
  /\ ValidState
  /\ "allowed" \in called
  /\ RawFocus = {"twist", "restorative"}
  /\ {"twist", "restorative"} \subseteq rule_allowed
  /\ body_state.allowed_pose_types = {"twist"}

\* names of the entries of a list of poses
NamesOf(poses) == {poses[i].name : i \in 1..Len(poses)}

\* position of a catalogue entry, by its (unique) name
CatalogueIndex ==
  [n \in NamesOf(PosePoolPoses) |->
     CHOOSE i \in 1..Len(PosePoolPoses) : PosePoolPoses[i].name = n]

\* poses are catalogue entries, in catalogue order, none of them twice
InCatalogueOrder(poses) ==
  /\ \A j \in 1..Len(poses) :
       /\ poses[j].name \in DOMAIN CatalogueIndex
       /\ poses[j] = PosePoolPoses[CatalogueIndex[poses[j].name]]
  /\ \A j \in 1..(Len(poses) - 1) :
       CatalogueIndex[poses[j].name] < CatalogueIndex[poses[j + 1].name]

\* C14: filter_by_types(allowed) returns exactly the catalogue entries whose
\* categories overlap allowed (any overlap, not containment), each at most
\* once and in catalogue order; an empty allowed list gives an empty result.
C14_FilterAnyOverlap ==
  pc \in {"filtered", "candidates"} =>
    /\ NamesOf(pose_candidates) =
         {PosePoolPoses[i].name : i \in
            {k \in 1..Len(PosePoolPoses) :
               PosePoolPoses[k].types \cap filter_types # {}}}
    /\ InCatalogueOrder(pose_candidates)
    /\ filter_types = {} => pose_candidates = <<>>

C14_Witness ==
  /\ pc = "filtered"
  /\ filter_types = {"inversion"}
  /\ Len(pose_candidates) = 9
  /\ pose_candidates[1].name = "legs_up_wall"
  /\ pose_candidates[1].types = {"restorative", "inversion"}

RECURSIVE SumMinutes(_, _)
SumMinutes(sections, i) ==
  IF i > Len(sections) THEN 0
  ELSE sections[i].minutes + SumMinutes(sections, i + 1)

\* the structure stage ran on a positive duration
StructureMade ==
  /\ pc \in {"structure", "sequence"}
  /\ ~llm_client
  /\ body_state.duration_minutes > 0

\* C15: for every positive duration and every intensity the minute budgets
\* of the emitted sections sum exactly to the duration.
C15_MinutesSumToDuration ==
  StructureMade =>
    /\ SumMinutes(structure.structure, 1) = body_state.duration_minutes
    /\ structure.total_minutes = body_state.duration_minutes

C15_Witness ==
  /\ pc = "structure"
  /\ body_state.duration_minutes = 31
  /\ body_state.intensity = "high"
  /\ structure.structure[1].minutes = 5
  /\ structure.structure[2].minutes = 19
  /\ structure.structure[3].minutes = 7

\* C16: for every positive duration, also one shorter than breathing plus
\* cool-down, every emitted section has a non-negative minute budget.
C16_NonNegativeMinutes ==
  StructureMade =>
    \A i \in 1..Len(structure.structure) : structure.structure[i].minutes >= 0

\* C17: exactly three sections in the order breathing, main flow, cool_down;
\* (breathing, cool_down) minutes are (2,3) for duration <= 15, (3,5) for
\* 15 < duration <= 30 and (5,7) above; the main section is gentle_flow for
\* low, dynamic_flow for high and moderate_flow for any other intensity.
C17_ThreeSectionsByTier ==
  (pc \in {"structure", "sequence"} /\ ~llm_client) =>
    LET d == body_state.duration_minutes
        sec == structure.structure
    IN  /\ Len(sec) = 3
        /\ sec[1].section = "breathing"
        /\ sec[3].section = "cool_down"
        /\ sec[2].section =
             (CASE body_state.intensity = "low" -> "gentle_flow"
                [] body_state.intensity = "high" -> "dynamic_flow"
                [] OTHER -> "moderate_flow")
        /\ d <= 15 => (sec[1].minutes = 2 /\ sec[3].minutes = 3)
        /\ (15 < d /\ d <= 30) => (sec[1].minutes = 3 /\ sec[3].minutes = 5)
        /\ d > 30 => (sec[1].minutes = 5 /\ sec[3].minutes = 7)

C17_Witness ==
  /\ pc = "structure"
  /\ body_state.duration_minutes = 30
  /\ body_state.intensity = "moderate"
  /\ structure.structure[2] = [section |-> "moderate_flow", minutes |-> 22]
  /\ structure.structure[3] = [section |-> "cool_down", minutes |-> 5]

\* process was called on user_input and has returned or raised
ProcessCalled ==
  \/ pc \in {"state", "candidates", "enriched", "structure", "sequence"}
  \/ pc = "error" /\ cycle_call = NoCall

\* C18: energy or pain outside 1..5, or a non-positive duration or
\* cycle_length, is a validation failure: process raises a validation error
\* and returns no BodyState.
C18_OutOfRangeRejected ==
  (ProcessCalled
     /\ Len(Get(user_input, "last_period_date", <<>>)) # 0
     /\ \/ Get(user_input, "energy", 3) \notin 1..5
        \/ Get(user_input, "pain", 1) \notin 1..5
        \/ Get(user_input, "duration", 20) <= 0
        \/ Get(user_input, "cycle_length", 28) <= 0) =>
    /\ pc = "error"
    /\ raised \in {"ValueError", "ValueError: last_period_date is required"}
    /\ body_state = NoState

\* C19: a missing cycle-start date (absent, None or empty) makes process
\* raise its validation error before the phase calculator or any rule is
\* evaluated, and no BodyState is produced.
C19_MissingDateRejected ==
  (ProcessCalled /\ Len(Get(user_input, "last_period_date", <<>>)) = 0) =>
    /\ pc = "error"
    /\ raised = "ValueError: last_period_date is required"
    /\ body_state = NoState
    /\ called = {}

C19_Witness ==
  /\ pc = "error"
  /\ cycle_call = NoCall
  /\ "last_period_date" \notin DOMAIN user_input
  /\ user_input.pain = 3
  /\ raised = "ValueError: last_period_date is required"
  /\ body_state = NoState

\* C20: for every valid input (energy and pain 1..5, positive duration, any
\* focus) the pipeline without a generative model ends with a sequence whose
\* every section (breathing, flow, cool_down) holds at least one pick.
C20_NoEmptySection ==
  (pc = "sequence"
     /\ ~llm_client
     /\ body_state.energy_level \in 1..5
     /\ body_state.pain_level \in 1..5
     /\ body_state.duration_minutes > 0) =>
    /\ Len(sequence.sequence) = 3
    /\ \A i \in 1..Len(sequence.sequence) : sequence.sequence[i].poses # <<>>

\* ---------------------------------------------------------------- C21
Min2(a, b) == IF a < b THEN a ELSE b
Max2(a, b) == IF a < b THEN b ELSE a

\* the candidates tagged restorative, gentle_stretch or forward_fold, in
\* candidate order
CoolDownCandidates ==
  LET Tagged(pose) ==
        pose.types \cap {"restorative", "gentle_stretch", "forward_fold"} # {}
  IN  SelectSeq(pose_candidates, Tagged)

\* C21: the cool-down selection returns the first min(3, n) candidates tagged
\* restorative, gentle_stretch or forward_fold, and when no candidate is so
\* tagged exactly one synthetic pick whose duration is the whole budget
C21_CoolDownSelection ==
  seq_call.op = "select_cool_down_poses" =>
    IF CoolDownCandidates = <<>>
    THEN /\ Len(seq_call.result) = 1
         /\ seq_call.result[1].pose = "child_pose"
         /\ seq_call.result[1].duration = <<seq_call.minutes, "min">>
    ELSE /\ Len(seq_call.result) = Min2(3, Len(CoolDownCandidates))
         /\ \A k \in 1..Len(seq_call.result) :
              /\ seq_call.result[k].pose = CoolDownCandidates[k].name
              /\ seq_call.result[k].duration
                   = CoolDownCandidates[k].duration_suggestion

\* a non-empty candidate list without a cool-down tag gets the synthetic pick
C21_Witness ==
  /\ seq_call.op = "select_cool_down_poses"
  /\ pose_candidates # <<>>
  /\ CoolDownCandidates = <<>>
  /\ seq_call.minutes = 5
  /\ seq_call.result = <<[pose |-> "child_pose", duration |-> <<5, "min">>]>>

\* ---------------------------------------------------------------- C24
\* what the phase filter keeps of the candidates, read off the claim
PhaseSuitable ==
  LET Suitable(pose) ==
        IF seq_call.phase = "menstrual"
        THEN /\ pose.types \cap {"restorative", "gentle_stretch", "breathing",
                                 "forward_fold"} # {}
             /\ (seq_call.intensity = "low" \/ pose.difficulty = "beginner")
        ELSE IF seq_call.phase = "ovulation" /\ seq_call.intensity = "high"
        THEN TRUE
        ELSE pose.difficulty # "advanced"
  IN  SelectSeq(pose_candidates, Suitable)

\* C24: the phase filter returns, in input order, the gentle beginner-or-low
\* candidates in menstrual, every candidate in ovulation at high intensity,
\* the non-advanced candidates otherwise, and the first ten candidates when
\* that selection is empty
C24_PhaseFilter ==
  seq_call.op = "filter_poses_for_phase" =>
    seq_call.result =
      IF PhaseSuitable # <<>> THEN PhaseSuitable
      ELSE SubSeq(pose_candidates, 1, Min2(10, Len(pose_candidates)))

\* more than ten candidates, none suitable in menstrual: the first ten return
C24_Witness ==
  /\ seq_call.op = "filter_poses_for_phase"
  /\ seq_call.phase = "menstrual"
  /\ Len(pose_candidates) > 10
  /\ PhaseSuitable = <<>>
  /\ Len(seq_call.result) = 10
  /\ \A k \in 1..10 : seq_call.result[k] = pose_candidates[k]

\* ---------------------------------------------------------------- C25
\* positions of the candidates tagged gentle_stretch
GentleStretchAt ==
  {i \in 1..Len(pose_candidates) :
     "gentle_stretch" \in pose_candidates[i].types}

\* the name of the warm-up pick, if any
WarmUpName ==
  IF GentleStretchAt = {} THEN <<>>
  ELSE <<pose_candidates[CHOOSE i \in GentleStretchAt :
                           \A j \in GentleStretchAt : i <= j].name>>

\* the candidates other than the warm-up pick, in candidate order
AfterWarmUp ==
  LET Other(pose) == \A k \in 1..Len(WarmUpName) : pose.name # WarmUpName[k]
  IN  SelectSeq(pose_candidates, Other)

\* C25: the main selection has at most six picks with distinct names: the
\* first gentle_stretch candidate if any (charged w = 2, else w = 0), then
\* the next k = min(5, remaining, max(0, m - 2 - w)) candidates in order
C25_MainSelection ==
  seq_call.op = "select_main_poses" =>
    LET w == IF GentleStretchAt = {} THEN 0 ELSE 2
        k == Min2(Min2(5, Len(AfterWarmUp)),
                  Max2(0, seq_call.minutes - 2 - w))
        names == [i \in 1..Len(seq_call.result) |-> seq_call.result[i].pose]
    IN  /\ Len(names) <= 6
        /\ \A i, j \in 1..Len(names) : names[i] = names[j] => i = j
        /\ names = WarmUpName \o [i \in 1..k |-> AfterWarmUp[i].name]

\* a warm-up pick that is not the first candidate, followed by two picks
\* from a budget of six minutes
C25_Witness ==
  /\ seq_call.op = "select_main_poses"
  /\ GentleStretchAt # {}
  /\ 1 \notin GentleStretchAt
  /\ seq_call.minutes = 6
  /\ Len(seq_call.result) = 3
  /\ seq_call.result[1].pose = WarmUpName[1]
  /\ seq_call.result[2].pose = pose_candidates[1].name

\* ---------------------------------------------------------------- C26
\* the payload a reply carries, fenced or not, is an object with a list
\* under key
PayloadPasses(reply, key) ==
  /\ ~reply.raises
  /\ reply.text.body.json = "dict"
  /\ key \in DOMAIN reply.text.body.value
  /\ key \in reply.text.body.lists

\* the sequence at hand came from the rule-based path of the sequencer
RuleBasedSequence ==
  /\ pc = "sequence"
  /\ llm_client => ~PayloadPasses(llm_raw[2], "sequence")

\* C26: the rule-based sequence has one entry per structure section, in the
\* same order and with the same section name; its total equals the
\* structure's total_minutes; the breathing entry holds exactly one
\* breath_awareness pick whose duration is that section's minute budget
C26_SequenceMirrorsStructure ==
  RuleBasedSequence =>
    LET sec == structure.structure
        seq == sequence.sequence
    IN  /\ Len(seq) = Len(sec)
        /\ \A k \in 1..Len(sec) :
             /\ "section" \in DOMAIN sec[k] => seq[k].section = sec[k].section
             /\ Get(sec[k], "section", "None") = "breathing" =>
                  /\ Len(seq[k].poses) = 1
                  /\ seq[k].poses[1].pose = "breath_awareness"
                  /\ "minutes" \in DOMAIN sec[k] =>
                       seq[k].poses[1].duration = <<sec[k].minutes, "min">>
        /\ "total_minutes" \in DOMAIN structure =>
             sequence.total_estimated_minutes = structure.total_minutes

\* a four-section structure of 20 minutes for a 45-minute request, sequenced
\* by the rule-based path
C26_Witness ==
  /\ RuleBasedSequence
  /\ body_state.duration_minutes = 45
  /\ Len(structure.structure) = 4
  /\ structure.structure[4].section = "savasana"
  /\ sequence.sequence[4] = [section |-> "savasana", poses |-> <<>>]
  /\ sequence.sequence[1].poses
       = <<[pose |-> "breath_awareness", duration |-> <<4, "min">>]>>
  /\ sequence.total_estimated_minutes = 20

\* ---------------------------------------------------------------- C27
\* the returned text as a whole is valid JSON for an object with a list
\* under key
TextPasses(reply, key) == PayloadPasses(reply, key) /\ ~reply.text.fenced

\* two dicts are equal: the same keys with the same values
SameDict(a, b) == DOMAIN a = DOMAIN b /\ a = b

\* C27 as stated: with a client, a call that raises, returns text that is
\* not valid JSON, or JSON that is not an object with a list under the key,
\* gives the rule-based output; only a passing object replaces it
C27_NonJSONFallsBack ==
  llm_client =>
    /\ pc \in {"structure", "sequence"} =>
         SameDict(structure,
           IF TextPasses(llm_raw[1], "structure")
           THEN llm_raw[1].text.body.value
           ELSE Planner_generate_rule_based(body_state))
    /\ pc = "sequence" =>
         SameDict(sequence,
           IF TextPasses(llm_raw[2], "sequence")
           THEN llm_raw[2].text.body.value
           ELSE Sequencer_generate_rule_based(structure, body_state,
                                              enriched_poses))

\* C27, amended: the text is judged by its JSON payload, which is the content
\* of a ``` fenced block when the text has one and the whole text otherwise;
\* a call that raises, a payload that is not valid JSON or not an object with
\* a list under the key gives the rule-based output for the same inputs, and
\* any other payload is returned as parsed
C27_LLMFallback ==
  llm_client =>
    /\ pc \in {"structure", "sequence"} =>
         SameDict(structure,
           IF PayloadPasses(llm_raw[1], "structure")
           THEN llm_raw[1].text.body.value
           ELSE Planner_generate_rule_based(body_state))
    /\ pc = "sequence" =>
         SameDict(sequence,
           IF PayloadPasses(llm_raw[2], "sequence")
           THEN llm_raw[2].text.body.value
           ELSE Sequencer_generate_rule_based(structure, body_state,
                                              enriched_poses))

\* the planner's call raised and the sequencer got an object whose
\* 'sequence' is not a list: both results are the rule-based ones
C27_Witness ==
  /\ llm_client
  /\ pc = "sequence"
  /\ llm_raw[1].raises
  /\ ~llm_raw[2].raises
  /\ llm_raw[2].text.body.json = "dict"
  /\ "sequence" \in DOMAIN llm_raw[2].text.body.value
  /\ "sequence" \notin llm_raw[2].text.body.lists
  /\ structure = Planner_generate_rule_based(body_state)
  /\ Len(sequence.sequence) = 3
  /\ sequence.total_estimated_minutes = body_state.duration_minutes

\* ---------------------------------------------------------------- C22
\* C22: two runs of process followed by the rule-based structure stage on
\* identical inputs at the same date give identical Body State and Structure
\* output, the order of the allowed and forbidden lists included
C22_RunsIdentical ==
  \A i, j \in 1..Len(runs) : runs[i].out = runs[j].out

\* ---------------------------------------------------------------- C23
\* C23: the catalogue is never mutated: whatever was invoked
\* (filter_by_types, filter_by_difficulty, get_pose_by_name, get_all_poses,
\* enrichment of the returned candidates, sequencing), the pool holds the
\* entries it was constructed with, each with its name, types and difficulty
C23_CatalogueUnchanged ==
  /\ Len(pool_poses) = Len(PosePoolPoses)
  /\ \A i \in 1..Len(PosePoolPoses) :
       /\ DOMAIN pool_poses[i] = DOMAIN PosePoolPoses[i]
       /\ pool_poses[i].name = PosePoolPoses[i].name
       /\ pool_poses[i].types = PosePoolPoses[i].types
       /\ pool_poses[i].difficulty = PosePoolPoses[i].difficulty

\* the whole pipeline ran over candidates that were enriched with new keys
C23_Witness ==
  /\ pc = "sequence"
  /\ enriched_poses # <<>>
  /\ "alignment_cues" \in DOMAIN enriched_poses[1]
  /\ pose_candidates[1].name = enriched_poses[1].name
  /\ "alignment_cues" \notin DOMAIN pose_candidates[1]
  /\ pool_poses = PosePoolPoses

\* ---------------------------------------------------------------- C28
\* process has returned a Body State
StateReturned ==
  pc \in {"state", "candidates", "enriched", "structure", "sequence"}

\* the pipeline has filtered the catalogue by the Body State's allowed list
CandidatesFiltered ==
  pc \in {"candidates", "enriched", "structure", "sequence"}

\* C28: no candidate that filter_by_types(body_state.allowed_pose_types)
\* returns carries a category of body_state.forbidden_pose_types
C28_NoForbiddenCategory ==
  CandidatesFiltered =>
    \A k \in 1..Len(pose_candidates) :
      pose_candidates[k].types \cap body_state.forbidden_pose_types = {}

\* ---------------------------------------------------------------- C29
\* C29: for energy and pain in 1..5 the rule-derived allowed set is
\* non-empty and contains breathing; for any focus the allowed set of the
\* Body State is non-empty; the candidate filter returns at least one entry
C29_NeverEmpty ==
  (StateReturned
     /\ body_state.energy_level \in 1..5
     /\ body_state.pain_level \in 1..5) =>
    /\ "breathing" \notin body_state.forbidden_pose_types
    /\ "allowed" \in called => "breathing" \in rule_allowed
    /\ body_state.allowed_pose_types # {}
    /\ CandidatesFiltered => pose_candidates # <<>>

\* lowest energy, highest pain and a focus that misses the allowed set
C29_Witness ==
  /\ pc = "candidates"
  /\ body_state.energy_level = 1
  /\ body_state.pain_level = 5
  /\ body_state.training_focus = {"twist", "inversion"}
  /\ body_state.allowed_pose_types = {"restorative", "breathing"}
  /\ Len(pose_candidates) > 0
  /\ \E k \in 1..Len(pose_candidates) :
       pose_candidates[k].name = "breath_awareness"

\* ---------------------------------------------------------------- C30
\* C30: intensity is high exactly when phase is ovulation, energy >= 4 and
\* pain <= 2; menstrual always has intensity low; a low intensity comes with
\* an allowed set free of inversion, arm_balance and strong_core
C30_IntensityConsistent ==
  StateReturned =>
    /\ body_state.intensity = "high" <=>
         (body_state.cycle_phase = "ovulation"
            /\ body_state.energy_level >= 4
            /\ body_state.pain_level <= 2)
    /\ body_state.cycle_phase = "menstrual" => body_state.intensity = "low"
    /\ body_state.intensity = "low" =>
         body_state.allowed_pose_types
           \cap {"inversion", "arm_balance", "strong_core"} = {}

\* low energy in ovulation: intensity low, the phase's arm_balance and
\* strong_core removed
C30_Witness ==
  /\ pc = "state"
  /\ body_state.cycle_phase = "ovulation"
  /\ body_state.energy_level = 2
  /\ body_state.pain_level = 1
  /\ body_state.intensity = "low"
  /\ "backbend" \in body_state.allowed_pose_types
  /\ "arm_balance" \in body_state.forbidden_pose_types

====
